---- MODULE Spec2Model ----
(***************************************************************************)
(* Model of the note-sharing server's NoteService (note.service.ts): the   *)
(* note store, the revision ledger and the share registry, with every      *)
(* service call split at its storage round trips (each `await` on a        *)
(* repository call is one atomic step against the store).                  *)
(*                                                                         *)
(* repository.save(entity) is modelled as a write of all the columns of    *)
(* the in-memory entity to the row with the entity's id (an insert when    *)
(* the entity has no id yet); findOne is a read of the current row(s).     *)
(*                                                                         *)
(* The SocketService (socket.service.ts) is modelled by its sockets, its   *)
(* userRooms and activeUsers maps, and by `sent`: the messages the last    *)
(* step delivered to connected sockets (socket.io keeps no queue; a        *)
(* message emitted to a room without sockets reaches nobody).  The code    *)
(* that follows a save up to the handler's return, socket calls included,  *)
(* belongs to the step of that save.                                       *)
(***************************************************************************)
EXTENDS Integers, Sequences, FiniteSets, TLC

\* ---------------------------------------------------------------- bounds
MaxRevisions == 3    \* rows the revision ledger may hold (SpecNotes)
ShareRevisions == 2  \* rows the revision ledger may hold (SpecShares)
RaceRevisions == 5   \* rows the revision ledger may hold (SpecRace)
MaxShares == 1       \* rows the share table may hold
TokenShares == 2     \* rows the share table may hold (SpecSharing)
MaxRequests == 2     \* requests of the browser that may wait at the server (SpecClient)

Procs == {"p1", "p2"}            \* concurrently handled requests
Users == {"A", "B", "C"}         \* user ids
InitialUsers == {"A", "B"}       \* accounts that exist at start; "C" has none yet
NoteIds == {"n1"}
Contents == {"", "X"}
RaceContents == {"X", "Y", "Z"}
Permissions == {"read", "edit"}
Conns == {"c1", "c2"}            \* sockets a client may open

\* User.email of each account (unique column)
Email == [u \in Users |-> IF u = "A" THEN "a@x.com" ELSE IF u = "B" THEN "b@x.com" ELSE "c@x.com"]

\* ---------------------------------------------------------------- state
VARIABLES
    users,        \* set of registered user ids (users table)
    notes,        \* function: ids of stored notes -> note row
    revisions,    \* sequence of revision rows, in insertion order (index = revision id)
    shares,       \* function: ids of stored shares -> share row
    pc,           \* per request slot: where the handler stands
    loc,          \* per request slot: arguments and in-memory entities of the handler
    everRevoked,  \* history: ids of shares whose stored isRevoked has ever been true
    revokeDone,   \* history: ids of shares on which an owner's revokeShare has completed
    conns,        \* per socket: the user it authenticated as and its currentRooms
    userRooms,    \* SocketService.userRooms: users that have a personal-room entry
    activeUsers,  \* SocketService.activeUsers: note id -> set of user ids
    sent,         \* the socket messages the last step delivered (empty when it sent none)
    client        \* the browser of "B": its note store and its requests under way

vars == <<users, notes, revisions, shares, pc, loc, everRevoked, revokeDone,
          conns, userRooms, activeUsers, sent, client>>

\* the state of the SocketService, and of the browser, that a service call leaves
\* alone
sockets == <<conns, userRooms, activeUsers, client>>

\* ---------------------------------------------------------------- rows
NoNote == [title |-> "", content |-> "", version |-> 0, isArchived |-> FALSE, ownerId |-> "none"]

NoRevision == [noteId |-> "none", version |-> 0, content |-> "", userId |-> "none"]

NoShare == [noteId |-> "none", sharedWithId |-> "none", email |-> "none", permission |-> "read",
            isAccepted |-> FALSE, isRevoked |-> FALSE, shareToken |-> 0]

\* a socket that is not connected; a connected one carries socket.userId and
\* socket.currentRooms (as note ids)
NoConn == [user |-> "none", rooms |-> {}]

\* a socket message as one socket receives it: the event name, the payload's action
\* (for an error event, its message), noteId, shareId, userId, activeUsers and content
\* (those the event carries)
NoMessage == [to |-> "none", event |-> "none", action |-> "none", nid |-> "none", sid |-> 0,
              user |-> "none", users |-> {}, content |-> ""]

\* NoteUpdateInput: every field is optional
NoPatch == [hasTitle |-> FALSE, title |-> "", hasContent |-> FALSE, content |-> "",
            hasArchived |-> FALSE, isArchived |-> FALSE]

ContentPatch(c) == [NoPatch EXCEPT !.hasContent = TRUE, !.content = c]

TitlePatch(t) == [NoPatch EXCEPT !.hasTitle = TRUE, !.title = t]

ArchivePatch(b) == [NoPatch EXCEPT !.hasArchived = TRUE, !.isArchived = b]

\* request bodies that carry no new content: a new title, the archive flag, both, or
\* the content "X" again
FramePatches ==
    {TitlePatch("U"), ArchivePatch(TRUE),
     [NoPatch EXCEPT !.hasTitle = TRUE, !.title = "U", !.hasArchived = TRUE, !.isArchived = TRUE],
     ContentPatch("X")}

\* the request bodies PUT /notes/:id is exercised with
Patches == {ContentPatch(c) : c \in Contents} \cup {TitlePatch("U")}

NoLocal == [op |-> "none", user |-> "none", nid |-> "none", sid |-> 0, rid |-> 0,
            note |-> NoNote, rev |-> NoRevision, share |-> NoShare, patch |-> NoPatch,
            readVersion |-> 0, readContent |-> "", result |-> "none", permission |-> "none",
            list |-> <<>>, query |-> "", ids |-> {}]

\* the note store of a browser that has not connected: no shared notes, no GET
\* /notes/shared request on its way to the server, no response on its way back
NoClient == [online |-> FALSE, sharedNotes |-> {}, requests |-> 0, responses |-> {}]

\* ---------------------------------------------------------------- helpers
\* Note.incrementVersion: this.version += 1
incrementVersion(note) == [note EXCEPT !.version = note.version + 1]

\* Object.assign(note, updateData): only the fields present in the patch are copied
ObjectAssign(note, patch) ==
    [note EXCEPT !.title = IF patch.hasTitle THEN patch.title ELSE @,
                 !.content = IF patch.hasContent THEN patch.content ELSE @,
                 !.isArchived = IF patch.hasArchived THEN patch.isArchived ELSE @]

\* mutant: the access test forgets that a share must have been accepted
GrantsAccess_PendingToo(s, n, u) ==
    /\ shares[s].noteId = n
    /\ shares[s].sharedWithId = u
    /\ ~shares[s].isRevoked

\* the predicate of note.shares.find(...) in getNoteById / updateNote
GrantsAccess(s, n, u) ==
    /\ shares[s].noteId = n
    /\ shares[s].sharedWithId = u
    /\ ~shares[s].isRevoked
    /\ shares[s].isAccepted

\* the share rows of note n that note.shares.find(...) can return for user u; the
\* store fixes no order on the joined rows, so `find` returns any one of them
MatchingShares(n, u) == {s \in DOMAIN shares : GrantsAccess(s, n, u)}

\* mutant: every update snapshots the note, whatever the patch carries
ContentChanged_Always(note, patch) == TRUE

\* `updateData.content && updateData.content !== note.content` (a JS truthiness test:
\* the empty string is falsy)
ContentChanged(note, patch) ==
    /\ patch.hasContent
    /\ patch.content # ""
    /\ patch.content # note.content

\* number of revision rows requests in flight are still going to insert
PendingRevisions == Cardinality({q \in Procs : pc[q] \in {"crt_rev", "upd_rev", "res_find", "res_rev"}})

\* number of share rows requests in flight are still going to insert
PendingShares == Cardinality({q \in Procs : pc[q] = "shr_save"})

\* a new request is taken only while the ledger has room for the row it may insert
RoomForRevision(max) == Len(revisions) + PendingRevisions < max

RoomForShare == Cardinality(DOMAIN shares) + PendingShares < MaxShares

\* the handler returns or throws: the in-memory entities are dropped, the arguments
\* and the outcome stay visible until the request slot is reused
Finish(p, l, result) ==
    /\ pc' = [pc EXCEPT ![p] = "done"]
    /\ loc' = [loc EXCEPT ![p] =
          [NoLocal EXCEPT !.op = l.op, !.user = l.user, !.nid = l.nid, !.sid = l.sid,
                          !.rid = l.rid,
                          !.patch = l.patch, !.readVersion = l.readVersion,
                          !.readContent = l.readContent,
                          !.permission = l.permission, !.list = l.list,
                          !.query = l.query,
                          !.result = result]]

\* the connected sockets
Connected == {c \in Conns : conns[c].user # "none"}

\* the sockets in the room `user:<u>`: every connected socket of user u
UserRoom(u) == {c \in Conns : conns[c].user = u}

\* the sockets in the room `note:<n>`
NoteRoom(n) == {c \in Conns : n \in conns[c].rooms}

\* SocketService.notifyNoteShared: io.to(`user:<u>`).emit("note-shared", {noteId})
notifyNoteShared(u, n) ==
    {[NoMessage EXCEPT !.to = c, !.event = "note-shared", !.nid = n] : c \in UserRoom(u)}

\* SocketService.sendUserNotification: only when userRooms has an entry for the user,
\* io.to(userRooms[u]).emit("notification", {message, ...data})
sendUserNotification(u, action, n, s) ==
    IF u \in userRooms
    THEN {[NoMessage EXCEPT !.to = c, !.event = "notification", !.action = action,
                            !.nid = n, !.sid = s] : c \in UserRoom(u)}
    ELSE {}

\* SocketService.broadcastShareUpdate: io.emit("share:updated", data), to every
\* connected socket
broadcastShareUpdate(n, s) ==
    {[NoMessage EXCEPT !.to = c, !.event = "share:updated", !.action = "revoked",
                       !.nid = n, !.sid = s] : c \in Connected}

\* ---------------------------------------------------------------- Init
Init ==
    /\ users = InitialUsers
    /\ notes = <<>>
    /\ revisions = <<>>
    /\ shares = <<>>
    /\ pc = [p \in Procs |-> "idle"]
    /\ loc = [p \in Procs |-> NoLocal]
    /\ everRevoked = {}
    /\ revokeDone = {}
    /\ conns = [c \in Conns |-> NoConn]
    /\ userRooms = {}
    /\ activeUsers = [n \in NoteIds |-> {}]
    /\ sent = {}
    /\ client = NoClient

\* AuthService.register: a new account, unless the email is taken
Register(u) ==
    /\ u \notin users
    /\ ~\E v \in users : Email[v] = Email[u]
    /\ users' = users \cup {u}
    /\ UNCHANGED <<notes, revisions, shares, pc, loc, everRevoked, revokeDone, sockets>>
    /\ sent' = {}

\* the handler's promise settles and the request slot is free again
Return(p) ==
    /\ pc[p] = "done"
    /\ pc' = [pc EXCEPT ![p] = "idle"]
    /\ loc' = [loc EXCEPT ![p] = NoLocal]
    /\ UNCHANGED <<users, notes, revisions, shares, everRevoked, revokeDone, sockets>>
    /\ sent' = {}

\* ---------------------------------------------------------------- createNote
\* createNote, up to the note insert: user lookup, then noteRepository.save(note)
CreateNote(p, u, t, c) ==
    /\ pc[p] = "idle"
    /\ LET l == [NoLocal EXCEPT !.op = "createNote", !.user = u]
       IN IF u \notin users
          THEN /\ Finish(p, l, "User not found")
               /\ UNCHANGED <<notes>>
          ELSE /\ \E n \in NoteIds :
                    /\ n \notin DOMAIN notes
                    /\ LET note == [title |-> t, content |-> c, version |-> 1,
                                    isArchived |-> FALSE, ownerId |-> u]
                       IN /\ notes' = (n :> note) @@ notes
                          /\ pc' = [pc EXCEPT ![p] = "crt_rev"]
                          /\ loc' = [loc EXCEPT ![p] =
                                [l EXCEPT !.nid = n, !.note = note,
                                          !.rev = [noteId |-> n, version |-> 1,
                                                   content |-> c, userId |-> u]]]
    /\ UNCHANGED <<users, revisions, shares, everRevoked, revokeDone, sockets>>
    /\ sent' = {}

\* mutant: the initial revision is built but never stored
CreateSaveRevision_Skipped(p) ==
    /\ pc[p] = "crt_rev"
    /\ Finish(p, loc[p], "ok")
    /\ UNCHANGED <<users, notes, revisions, shares, everRevoked, revokeDone, sockets>>
    /\ sent' = {}

\* createNote: revisionRepository.save(revision), the initial revision; the insert
\* fails on the foreign key noteId when the note row is gone
CreateSaveRevision(p) ==
    /\ pc[p] = "crt_rev"
    /\ IF loc[p].nid \in DOMAIN notes
       THEN /\ revisions' = Append(revisions, loc[p].rev)
            /\ Finish(p, loc[p], "ok")
       ELSE /\ revisions' = revisions
            /\ Finish(p, loc[p], "foreign key violation")
    /\ UNCHANGED <<users, notes, shares, everRevoked, revokeDone, sockets>>
    /\ sent' = {}

\* ---------------------------------------------------------------- getNoteById
\* mutant: a matching share row decides the permission before the owner test does
GetNote_ShareBeforeOwner(p, n, u) ==
    /\ pc[p] = "idle"
    /\ LET l == [NoLocal EXCEPT !.op = "getNote", !.user = u, !.nid = n]
       IN IF n \notin DOMAIN notes
          THEN Finish(p, l, "Note not found")
          ELSE IF MatchingShares(n, u) # {}
               THEN \E s \in MatchingShares(n, u) :
                       Finish(p, [l EXCEPT !.note = notes[n], !.sid = s,
                                           !.permission = shares[s].permission], "ok")
               ELSE IF notes[n].ownerId # u
                    THEN Finish(p, l, "Forbidden")
                    ELSE Finish(p, [l EXCEPT !.note = notes[n], !.permission = "edit"], "ok")
    /\ UNCHANGED <<users, notes, revisions, shares, everRevoked, revokeDone, sockets>>
    /\ sent' = {}

\* getNoteById: one read of the note with its shares, then the access decision
GetNote(p, n, u) ==
    /\ pc[p] = "idle"
    /\ LET l == [NoLocal EXCEPT !.op = "getNote", !.user = u, !.nid = n]
       IN IF n \notin DOMAIN notes
          THEN Finish(p, l, "Note not found")
          ELSE IF notes[n].ownerId # u
               THEN IF MatchingShares(n, u) = {}
                    THEN Finish(p, l, "Forbidden")
                    ELSE \E s \in MatchingShares(n, u) :
                            Finish(p, [l EXCEPT !.note = notes[n], !.sid = s,
                                                !.permission = shares[s].permission], "ok")
               ELSE Finish(p, [l EXCEPT !.note = notes[n], !.permission = "edit"], "ok")
    /\ UNCHANGED <<users, notes, revisions, shares, everRevoked, revokeDone, sockets>>
    /\ sent' = {}

\* ---------------------------------------------------------------- updateNote
\* mutant: any active share lets its holder edit, whatever its permission
CanEdit_AnyShare(n, u, s) ==
    \/ notes[n].ownerId = u
    \/ s \in MatchingShares(n, u)

\* the permission updateNote computes from its read: owner, or the share `find` returned
CanEdit(n, u, s) ==
    \/ notes[n].ownerId = u
    \/ /\ s \in MatchingShares(n, u)
       /\ shares[s].permission = "edit"

\* updateNote, up to the first write: findOne(note with shares), permission check,
\* then (content changed) incrementVersion and the revision built from the old content
UpdateStart(p, n, u, patch) ==
    /\ pc[p] = "idle"
    /\ LET l == [NoLocal EXCEPT !.op = "updateNote", !.user = u, !.nid = n, !.patch = patch]
       IN IF n \notin DOMAIN notes
          THEN Finish(p, l, "Note not found")
          ELSE \E s \in (IF MatchingShares(n, u) = {} THEN {0} ELSE MatchingShares(n, u)) :
                 IF ~CanEdit(n, u, s)
                 THEN Finish(p, l, "Forbidden")
                 ELSE LET perm == IF notes[n].ownerId # u /\ s # 0
                                  THEN shares[s].permission ELSE "edit"
                          l2 == [l EXCEPT !.sid = s, !.permission = perm,
                                          !.readVersion = notes[n].version,
                                          !.readContent = notes[n].content]
                      IN IF ContentChanged(notes[n], patch)
                         THEN /\ pc' = [pc EXCEPT ![p] = "upd_rev"]
                              /\ loc' = [loc EXCEPT ![p] =
                                    [l2 EXCEPT !.note = incrementVersion(notes[n]),
                                               !.rev = [noteId |-> n,
                                                        version |-> notes[n].version + 1 - 1,
                                                        content |-> notes[n].content,
                                                        userId |-> u]]]
                         ELSE /\ pc' = [pc EXCEPT ![p] = "upd_note"]
                              /\ loc' = [loc EXCEPT ![p] = [l2 EXCEPT !.note = notes[n]]]

\* updateNote called through PUT /notes/:id, up to the first write
UpdateRead(p, n, u, patch) ==
    /\ UpdateStart(p, n, u, patch)
    /\ UNCHANGED <<users, notes, revisions, shares, everRevoked, revokeDone, sockets>>
    /\ sent' = {}

\* mutant: the snapshot of the old content is built but never stored
UpdateSaveRevision_Skipped(p) ==
    /\ pc[p] = "upd_rev"
    /\ pc' = [pc EXCEPT ![p] = "upd_note"]
    /\ UNCHANGED <<users, notes, revisions, shares, loc, everRevoked, revokeDone, sockets>>
    /\ sent' = {}

\* updateNote: revisionRepository.save(revision); the insert fails on the foreign key
\* noteId when the note row is gone
UpdateSaveRevision(p) ==
    /\ pc[p] = "upd_rev"
    /\ IF loc[p].nid \in DOMAIN notes
       THEN /\ revisions' = Append(revisions, loc[p].rev)
            /\ pc' = [pc EXCEPT ![p] = "upd_note"]
            /\ loc' = loc
       ELSE /\ revisions' = revisions
            /\ Finish(p, loc[p], "foreign key violation")
    /\ UNCHANGED <<users, notes, shares, everRevoked, revokeDone, sockets>>
    /\ sent' = {}

\* updateNote: Object.assign(note, updateData); noteRepository.save(note)
UpdateSaveNote(p) ==
    /\ pc[p] = "upd_note"
    /\ LET saved == ObjectAssign(loc[p].note, loc[p].patch)
       IN /\ notes' = (loc[p].nid :> saved) @@ notes
          /\ Finish(p, [loc[p] EXCEPT !.note = saved], "ok")
    /\ UNCHANGED <<users, revisions, shares, everRevoked, revokeDone, sockets>>
    /\ sent' = {}

\* updateNote: noteRepository.save(note) throws (the database rejects or loses the
\* statement); updateNote has no catch block and no transaction, the error goes to
\* the caller with whatever was stored before
UpdateSaveNoteFails(p) ==
    /\ pc[p] = "upd_note"
    /\ Finish(p, loc[p], "Database error")
    /\ UNCHANGED <<users, notes, revisions, shares, everRevoked, revokeDone, sockets>>
    /\ sent' = {}

\* ---------------------------------------------------------------- restoreRevision
\* restoreRevision: getNoteById, then the edit check against note.shares, which
\* getNoteById has just cleared (note.shares = [])
RestoreRead(p, n, r, u) ==
    /\ pc[p] = "idle"
    /\ LET l == [NoLocal EXCEPT !.op = "restoreRevision", !.user = u, !.nid = n, !.rid = r]
       IN IF n \notin DOMAIN notes
          THEN Finish(p, l, "Note not found")
          ELSE IF notes[n].ownerId # u /\ MatchingShares(n, u) = {}
               THEN Finish(p, l, "Forbidden")
               ELSE IF notes[n].ownerId # u
                    THEN Finish(p, l, "Forbidden")
                    ELSE /\ pc' = [pc EXCEPT ![p] = "res_find"]
                         /\ loc' = [loc EXCEPT ![p] =
                               [l EXCEPT !.note = notes[n], !.readVersion = notes[n].version,
                                         !.readContent = notes[n].content]]
    /\ UNCHANGED <<users, notes, revisions, shares, everRevoked, revokeDone, sockets>>
    /\ sent' = {}

\* restoreRevision: findOne(revision by id and noteId), then incrementVersion and the
\* revision built from the current content
RestoreFindRevision(p) ==
    /\ pc[p] = "res_find"
    /\ IF loc[p].rid \in 1..Len(revisions) /\ revisions[loc[p].rid].noteId = loc[p].nid
       THEN /\ pc' = [pc EXCEPT ![p] = "res_rev"]
            /\ loc' = [loc EXCEPT ![p] =
                  [@ EXCEPT !.note = [incrementVersion(loc[p].note) EXCEPT
                                          !.content = revisions[loc[p].rid].content],
                            !.rev = [noteId |-> loc[p].nid,
                                     version |-> loc[p].note.version + 1 - 1,
                                     content |-> loc[p].note.content,
                                     userId |-> loc[p].user]]]
       ELSE Finish(p, loc[p], "Revision not found")
    /\ UNCHANGED <<users, notes, revisions, shares, everRevoked, revokeDone, sockets>>
    /\ sent' = {}

\* mutant: the snapshot of the pre-restore content is built but never stored
RestoreSaveRevision_Skipped(p) ==
    /\ pc[p] = "res_rev"
    /\ pc' = [pc EXCEPT ![p] = "res_note"]
    /\ UNCHANGED <<users, notes, revisions, shares, loc, everRevoked, revokeDone, sockets>>
    /\ sent' = {}

\* restoreRevision: revisionRepository.save(newRevision); the insert fails on the
\* foreign key noteId when the note row is gone
RestoreSaveRevision(p) ==
    /\ pc[p] = "res_rev"
    /\ IF loc[p].nid \in DOMAIN notes
       THEN /\ revisions' = Append(revisions, loc[p].rev)
            /\ pc' = [pc EXCEPT ![p] = "res_note"]
            /\ loc' = loc
       ELSE /\ revisions' = revisions
            /\ Finish(p, loc[p], "foreign key violation")
    /\ UNCHANGED <<users, notes, shares, everRevoked, revokeDone, sockets>>
    /\ sent' = {}

\* restoreRevision: note.content = revision.content; noteRepository.save(note)
RestoreSaveNote(p) ==
    /\ pc[p] = "res_note"
    /\ notes' = (loc[p].nid :> loc[p].note) @@ notes
    /\ Finish(p, loc[p], "ok")
    /\ UNCHANGED <<users, revisions, shares, everRevoked, revokeDone, sockets>>
    /\ sent' = {}

\* ---------------------------------------------------------------- deleteNote
\* a deleted revision or share row leaves an empty row (NoRevision, NoShare) in its
\* place, so that the ids of the other rows stay what they were; an empty row belongs
\* to no note and matches no query

\* deleteNote: getNoteById(noteId, userId), then the owner check
DeleteRead(p, n, u) ==
    /\ pc[p] = "idle"
    /\ LET l == [NoLocal EXCEPT !.op = "deleteNote", !.user = u, !.nid = n]
       IN IF n \notin DOMAIN notes
          THEN Finish(p, l, "Note not found")
          ELSE IF notes[n].ownerId # u /\ MatchingShares(n, u) = {}
               THEN Finish(p, l, "Forbidden")
               ELSE IF notes[n].ownerId # u
                    THEN Finish(p, l, "Only the owner can delete this note")
                    ELSE /\ pc' = [pc EXCEPT ![p] = "del_revs"]
                         /\ loc' = [loc EXCEPT ![p] = [l EXCEPT !.note = notes[n]]]
    /\ UNCHANGED <<users, notes, revisions, shares, everRevoked, revokeDone, sockets>>
    /\ sent' = {}

\* deleteNote: DELETE FROM note_revisions WHERE noteId = :noteId
DeleteRevisions(p) ==
    /\ pc[p] = "del_revs"
    /\ revisions' = [i \in DOMAIN revisions |->
                        IF revisions[i].noteId = loc[p].nid THEN NoRevision ELSE revisions[i]]
    /\ pc' = [pc EXCEPT ![p] = "del_shares"]
    /\ UNCHANGED <<users, notes, shares, loc, everRevoked, revokeDone, sockets>>
    /\ sent' = {}

\* deleteNote: DELETE FROM note_shares WHERE noteId = :noteId
DeleteShares(p) ==
    /\ pc[p] = "del_shares"
    /\ shares' = [s \in DOMAIN shares |->
                     IF shares[s].noteId = loc[p].nid THEN NoShare ELSE shares[s]]
    /\ pc' = [pc EXCEPT ![p] = "del_note"]
    /\ UNCHANGED <<users, notes, revisions, loc, everRevoked, revokeDone, sockets>>
    /\ sent' = {}

\* mutant: the note row is removed whatever still references it
DeleteRemoveNote_NoForeignKey(p) ==
    /\ pc[p] = "del_note"
    /\ notes' = [m \in DOMAIN notes \ {loc[p].nid} |-> notes[m]]
    /\ Finish(p, loc[p], "ok")
    /\ UNCHANGED <<users, revisions, shares, everRevoked, revokeDone, sockets>>
    /\ sent' = {}

\* deleteNote: noteRepository.remove(note); the delete fails on the foreign keys of
\* note_revisions and note_shares while a row still references the note, and the
\* catch block rethrows it as "Failed to delete note"
DeleteRemoveNote(p) ==
    /\ pc[p] = "del_note"
    /\ IF \/ \E i \in DOMAIN revisions : revisions[i].noteId = loc[p].nid
          \/ \E s \in DOMAIN shares : shares[s].noteId = loc[p].nid
       THEN /\ notes' = notes
            /\ Finish(p, loc[p], "Failed to delete note")
       ELSE /\ notes' = [m \in DOMAIN notes \ {loc[p].nid} |-> notes[m]]
            /\ Finish(p, loc[p], "ok")
    /\ UNCHANGED <<users, revisions, shares, everRevoked, revokeDone, sockets>>
    /\ sent' = {}

\* deleteNote: the statement the call is waiting on throws (the database rejects or
\* loses it); the catch block rethrows and the statements after it are not run
DeleteStepFails(p) ==
    /\ pc[p] \in {"del_revs", "del_shares", "del_note"}
    /\ Finish(p, loc[p], "Failed to delete note")
    /\ UNCHANGED <<users, notes, revisions, shares, everRevoked, revokeDone, sockets>>
    /\ sent' = {}

\* ---------------------------------------------------------------- getNoteRevisions
\* the ids of the revision rows of note n
RevisionsOf(n) == {i \in 1..Len(revisions) : revisions[i].noteId = n}

\* the results find({where: {noteId}, order: {version: "DESC"}}) can return: the
\* rows of the note by descending version, rows of equal version in any order
FindRevisions(n) ==
    {seq \in [1..Cardinality(RevisionsOf(n)) -> RevisionsOf(n)] :
        /\ \A i, j \in DOMAIN seq : i # j => seq[i] # seq[j]
        /\ \A i, j \in DOMAIN seq :
              i < j => revisions[seq[i]].version >= revisions[seq[j]].version}

\* getNoteRevisions: the access check, getNoteById(noteId, userId)
RevisionsRead(p, n, u) ==
    /\ pc[p] = "idle"
    /\ LET l == [NoLocal EXCEPT !.op = "getNoteRevisions", !.user = u, !.nid = n]
       IN IF n \notin DOMAIN notes
          THEN Finish(p, l, "Note not found")
          ELSE IF notes[n].ownerId # u /\ MatchingShares(n, u) = {}
               THEN Finish(p, l, "Forbidden")
               ELSE /\ pc' = [pc EXCEPT ![p] = "rvs_find"]
                    /\ loc' = [loc EXCEPT ![p] = l]
    /\ UNCHANGED <<users, notes, revisions, shares, everRevoked, revokeDone, sockets>>
    /\ sent' = {}

\* getNoteRevisions: revisionRepository.find, the ids of the rows in the order returned
RevisionsFind(p) ==
    /\ pc[p] = "rvs_find"
    /\ \E seq \in FindRevisions(loc[p].nid) : Finish(p, [loc[p] EXCEPT !.list = seq], "ok")
    /\ UNCHANGED <<users, notes, revisions, shares, everRevoked, revokeDone, sockets>>
    /\ sent' = {}

\* ---------------------------------------------------------------- searchNotes
\* the search strings GET /notes/search is exercised with
Queries == {"x", "t"}

\* lower case of the one-letter texts the model uses
LowerCase(s) ==
    CASE s = "T" -> "t" [] s = "U" -> "u" [] s = "X" -> "x" [] s = "Y" -> "y" [] OTHER -> s

\* `text ILIKE '%q%'` for texts of at most one letter: q is empty, or is the text up to
\* case
ILike(text, q) == q = "" \/ LowerCase(text) = LowerCase(q)

\* the WHERE clause both note queries of searchNotes share
SearchMatch(n, q) ==
    /\ ILike(notes[n].title, q) \/ ILike(notes[n].content, q)
    /\ notes[n].isArchived = FALSE

\* the results getMany() can return for a set of rows: the rows in any order
Orderings(S) ==
    {seq \in [1..Cardinality(S) -> S] : \A i, j \in DOMAIN seq : i # j => seq[i] # seq[j]}

\* searchNotes: the query for the notes the user owns
SearchOwned(p, u, q) ==
    /\ pc[p] = "idle"
    /\ \E owned \in Orderings({n \in DOMAIN notes : notes[n].ownerId = u /\ SearchMatch(n, q)}) :
          /\ pc' = [pc EXCEPT ![p] = "src_shares"]
          /\ loc' = [loc EXCEPT ![p] = [NoLocal EXCEPT !.op = "searchNotes", !.user = u,
                                                       !.query = q, !.list = owned]]
    /\ UNCHANGED <<users, notes, revisions, shares, everRevoked, revokeDone, sockets>>
    /\ sent' = {}

\* searchNotes: the query for the note ids of the user's accepted, unrevoked shares;
\* with none, the owned notes are the result
SearchShares(p) ==
    /\ pc[p] = "src_shares"
    /\ LET ids == {shares[s].noteId : s \in {x \in DOMAIN shares :
                                                /\ shares[x].sharedWithId = loc[p].user
                                                /\ shares[x].isAccepted = TRUE
                                                /\ shares[x].isRevoked = FALSE}}
       IN IF ids = {}
          THEN Finish(p, loc[p], "ok")
          ELSE /\ pc' = [pc EXCEPT ![p] = "src_shared"]
               /\ loc' = [loc EXCEPT ![p].ids = ids]
    /\ UNCHANGED <<users, notes, revisions, shares, everRevoked, revokeDone, sockets>>
    /\ sent' = {}

\* searchNotes: the query for the notes with those ids, and
\* `return [...ownedNotes, ...sharedNotes]`
SearchShared(p) ==
    /\ pc[p] = "src_shared"
    /\ \E shared \in Orderings({n \in DOMAIN notes :
                                   n \in loc[p].ids /\ SearchMatch(n, loc[p].query)}) :
          Finish(p, [loc[p] EXCEPT !.list = loc[p].list \o shared], "ok")
    /\ UNCHANGED <<users, notes, revisions, shares, everRevoked, revokeDone, sockets>>
    /\ sent' = {}

\* ---------------------------------------------------------------- shareNote
\* shareNote, up to the insert: getNoteById(noteId, userId) and the owner check
ShareRead(p, n, u, e, perm) ==
    /\ pc[p] = "idle"
    /\ LET l == [NoLocal EXCEPT !.op = "shareNote", !.user = u, !.nid = n,
                                !.share = [NoShare EXCEPT !.noteId = n, !.email = e,
                                                          !.permission = perm]]
       IN IF n \notin DOMAIN notes
          THEN Finish(p, l, "Note not found")
          ELSE IF notes[n].ownerId # u /\ MatchingShares(n, u) = {}
               THEN Finish(p, l, "Forbidden")
               ELSE IF notes[n].ownerId # u
                    THEN Finish(p, l, "Only the owner can share this note")
                    ELSE /\ pc' = [pc EXCEPT ![p] = "shr_save"]
                         /\ loc' = [loc EXCEPT ![p] = l]
    /\ UNCHANGED <<users, notes, revisions, shares, everRevoked, revokeDone, sockets>>
    /\ sent' = {}

\* mutant: every share gets the same token
ShareSave_SameToken(p) ==
    /\ pc[p] = "shr_save"
    /\ LET id == Cardinality(DOMAIN shares) + 1
           target == {v \in users : Email[v] = loc[p].share.email}
           row == [loc[p].share EXCEPT
                       !.shareToken = 1,
                       !.isAccepted = FALSE,
                       !.isRevoked = FALSE,
                       !.sharedWithId = IF target = {} THEN "none" ELSE CHOOSE v \in target : TRUE]
       IN /\ shares' = (id :> row) @@ shares
          /\ Finish(p, [loc[p] EXCEPT !.share = row, !.sid = id], "ok")
          /\ sent' = IF target = {} THEN {}
                     ELSE notifyNoteShared(row.sharedWithId, row.noteId)
    /\ UNCHANGED <<users, notes, revisions, everRevoked, revokeDone, sockets>>

\* shareNote: findOne(user by email), then noteShareRepository.save(share) with a
\* fresh uuid token; the share is bound to the account when one has that email; the
\* insert fails on the foreign key noteId when the note row is gone
ShareSave(p) ==
    /\ pc[p] = "shr_save"
    /\ LET id == Cardinality(DOMAIN shares) + 1
           target == {v \in users : Email[v] = loc[p].share.email}
           row == [loc[p].share EXCEPT
                       !.shareToken = id,
                       !.isAccepted = FALSE,
                       !.isRevoked = FALSE,
                       !.sharedWithId = IF target = {} THEN "none" ELSE CHOOSE v \in target : TRUE]
       IN IF row.noteId \in DOMAIN notes
          THEN /\ shares' = (id :> row) @@ shares
               /\ Finish(p, [loc[p] EXCEPT !.share = row, !.sid = id], "ok")
               /\ sent' = IF target = {} THEN {}
                          ELSE notifyNoteShared(row.sharedWithId, row.noteId)
          ELSE /\ shares' = shares
               /\ Finish(p, loc[p], "foreign key violation")
               /\ sent' = {}
    /\ UNCHANGED <<users, notes, revisions, everRevoked, revokeDone, sockets>>

\* ---------------------------------------------------------------- accept / decline
\* the share row findOne({shareToken: token}) returns, 0 when there is none
ShareOfToken(token) ==
    IF \E s \in DOMAIN shares : shares[s].shareToken = token
    THEN CHOOSE s \in DOMAIN shares : shares[s].shareToken = token
    ELSE 0

\* mutant: the guards without the test of share.isRevoked
TokenGuard_NoRevokedCheck(s, u) ==
    IF s = 0 THEN "Invalid share token"
    ELSE IF shares[s].isAccepted THEN "This share has already been accepted"
    ELSE IF shares[s].sharedWithId # "none" /\ shares[s].sharedWithId # u
         THEN "This share was not intended for you"
    ELSE IF u \notin users THEN "User not found"
    ELSE IF shares[s].email # "none" /\ shares[s].email # Email[u]
         THEN "This share was intended for a different email address"
    ELSE "ok"

\* mutant: the guards without the comparison of share.email with the user's email
TokenGuard_NoEmailCheck(s, u) ==
    IF s = 0 THEN "Invalid share token"
    ELSE IF shares[s].isRevoked THEN "This share has been revoked"
    ELSE IF shares[s].isAccepted THEN "This share has already been accepted"
    ELSE IF shares[s].sharedWithId # "none" /\ shares[s].sharedWithId # u
         THEN "This share was not intended for you"
    ELSE IF u \notin users THEN "User not found"
    ELSE "ok"

\* the guards acceptSharedNote and declineSharedNote run on the loaded share, in the
\* code's order; "ok" when all pass
TokenGuard(s, u) ==
    IF s = 0 THEN "Invalid share token"
    ELSE IF shares[s].isRevoked THEN "This share has been revoked"
    ELSE IF shares[s].isAccepted THEN "This share has already been accepted"
    ELSE IF shares[s].sharedWithId # "none" /\ shares[s].sharedWithId # u
         THEN "This share was not intended for you"
    ELSE IF u \notin users THEN "User not found"
    ELSE IF shares[s].email # "none" /\ shares[s].email # Email[u]
         THEN "This share was intended for a different email address"
    ELSE "ok"

\* acceptSharedNote, up to the write: the share read by token with its note, the
\* guards, and the in-memory share bound to the user and marked accepted
AcceptRead(p, token, u) ==
    /\ pc[p] = "idle"
    /\ LET s == ShareOfToken(token)
           l == [NoLocal EXCEPT !.op = "acceptShare", !.user = u, !.sid = s]
       IN IF TokenGuard(s, u) # "ok"
          THEN Finish(p, l, TokenGuard(s, u))
          ELSE /\ pc' = [pc EXCEPT ![p] = "acc_save"]
               /\ loc' = [loc EXCEPT ![p] =
                     [l EXCEPT !.nid = shares[s].noteId,
                               !.note = notes[shares[s].noteId],
                               !.share = [shares[s] EXCEPT !.sharedWithId = u,
                                                           !.isAccepted = TRUE]]]
    /\ UNCHANGED <<users, notes, revisions, shares, everRevoked, revokeDone, sockets>>
    /\ sent' = {}

\* acceptSharedNote: noteShareRepository.save(share), then the "share-accepted"
\* notification to the note's owner
AcceptSave(p) ==
    /\ pc[p] = "acc_save"
    /\ shares' = (loc[p].sid :> loc[p].share) @@ shares
    /\ Finish(p, loc[p], "ok")
    /\ sent' = sendUserNotification(loc[p].note.ownerId, "share-accepted",
                                    loc[p].nid, loc[p].sid)
    /\ UNCHANGED <<users, notes, revisions, everRevoked, revokeDone, sockets>>

\* the guards as declineSharedNote words them: the same tests, with its own message
\* for a share that is already accepted
DeclineGuard(s, u) ==
    IF TokenGuard(s, u) = "This share has already been accepted"
    THEN "This share has already been accepted and cannot be declined"
    ELSE TokenGuard(s, u)

\* declineSharedNote, up to the write: the share read by token with its note, the
\* guards, and the in-memory share bound to the user and marked revoked
DeclineRead(p, token, u) ==
    /\ pc[p] = "idle"
    /\ LET s == ShareOfToken(token)
           l == [NoLocal EXCEPT !.op = "declineShare", !.user = u, !.sid = s]
       IN IF DeclineGuard(s, u) # "ok"
          THEN Finish(p, l, DeclineGuard(s, u))
          ELSE /\ pc' = [pc EXCEPT ![p] = "dec_save"]
               /\ loc' = [loc EXCEPT ![p] =
                     [l EXCEPT !.nid = shares[s].noteId,
                               !.note = notes[shares[s].noteId],
                               !.share = [shares[s] EXCEPT !.isRevoked = TRUE,
                                                           !.sharedWithId = u]]]
    /\ UNCHANGED <<users, notes, revisions, shares, everRevoked, revokeDone, sockets>>
    /\ sent' = {}

\* mutant: the declined share is saved and nobody is told
DeclineSave_NoNotification(p) ==
    /\ pc[p] = "dec_save"
    /\ shares' = (loc[p].sid :> loc[p].share) @@ shares
    /\ everRevoked' = everRevoked \cup {loc[p].sid}
    /\ Finish(p, loc[p], "ok")
    /\ sent' = {}
    /\ UNCHANGED <<users, notes, revisions, revokeDone, sockets>>

\* declineSharedNote: noteShareRepository.save(share), then the "share-declined"
\* notification to the note's owner
DeclineSave(p) ==
    /\ pc[p] = "dec_save"
    /\ shares' = (loc[p].sid :> loc[p].share) @@ shares
    /\ everRevoked' = everRevoked \cup {loc[p].sid}
    /\ Finish(p, loc[p], "ok")
    /\ sent' = sendUserNotification(loc[p].note.ownerId, "share-declined",
                                    loc[p].nid, loc[p].sid)
    /\ UNCHANGED <<users, notes, revisions, revokeDone, sockets>>

\* ---------------------------------------------------------------- revokeShare
\* revokeShare: findOne(share by id)
RevokeRead(p, s, u) ==
    /\ pc[p] = "idle"
    /\ LET l == [NoLocal EXCEPT !.op = "revokeShare", !.user = u, !.sid = s]
       IN IF s \notin DOMAIN shares
          THEN Finish(p, l, "Share not found")
          ELSE /\ pc' = [pc EXCEPT ![p] = "rvk_check"]
               /\ loc' = [loc EXCEPT ![p] = [l EXCEPT !.nid = shares[s].noteId,
                                                      !.share = shares[s]]]
    /\ UNCHANGED <<users, notes, revisions, shares, everRevoked, revokeDone, sockets>>
    /\ sent' = {}

\* mutant: whoever can read the note may revoke its shares
RevokeCheckOwner_AnyReader(p) ==
    /\ pc[p] = "rvk_check"
    /\ LET n == loc[p].nid
           u == loc[p].user
       IN IF n \notin DOMAIN notes
          THEN Finish(p, loc[p], "Note not found")
          ELSE IF notes[n].ownerId # u /\ MatchingShares(n, u) = {}
               THEN Finish(p, loc[p], "Forbidden")
               ELSE /\ pc' = [pc EXCEPT ![p] = "rvk_save"]
                    /\ loc' = loc
    /\ UNCHANGED <<users, notes, revisions, shares, everRevoked, revokeDone, sockets>>
    /\ sent' = {}

\* revokeShare: getNoteById(share.noteId, userId) and the owner check
RevokeCheckOwner(p) ==
    /\ pc[p] = "rvk_check"
    /\ LET n == loc[p].nid
           u == loc[p].user
       IN IF n \notin DOMAIN notes
          THEN Finish(p, loc[p], "Note not found")
          ELSE IF notes[n].ownerId # u /\ MatchingShares(n, u) = {}
               THEN Finish(p, loc[p], "Forbidden")
               ELSE IF notes[n].ownerId # u
                    THEN Finish(p, loc[p], "Only the owner can revoke shares")
                    ELSE /\ pc' = [pc EXCEPT ![p] = "rvk_save"]
                         /\ loc' = loc
    /\ UNCHANGED <<users, notes, revisions, shares, everRevoked, revokeDone, sockets>>
    /\ sent' = {}

\* revokeShare: share.isRevoked = true and noteShareRepository.save(share); then, when
\* the share is bound to a user, the "share-revoked" notification to that user and
\* the share:updated broadcast; then the "share-revoked-by-owner" notification to the
\* caller
RevokeSave(p) ==
    /\ pc[p] = "rvk_save"
    /\ shares' = (loc[p].sid :> [loc[p].share EXCEPT !.isRevoked = TRUE]) @@ shares
    /\ everRevoked' = everRevoked \cup {loc[p].sid}
    /\ revokeDone' = revokeDone \cup {loc[p].sid}
    /\ Finish(p, loc[p], "ok")
    /\ sent' = (IF loc[p].share.sharedWithId # "none"
                THEN sendUserNotification(loc[p].share.sharedWithId, "share-revoked",
                                          loc[p].nid, loc[p].sid)
                     \cup broadcastShareUpdate(loc[p].nid, loc[p].sid)
                ELSE {})
               \cup sendUserNotification(loc[p].user, "share-revoked-by-owner",
                                         loc[p].nid, loc[p].sid)
    /\ UNCHANGED <<users, notes, revisions, sockets>>

\* ---------------------------------------------------------------- sockets
\* io.on("connection"): the socket joins its user's personal room, and userRooms
\* gets (or keeps) the user's entry
Connect(c, u) ==
    /\ conns[c] = NoConn
    /\ conns' = [conns EXCEPT ![c] = [user |-> u, rooms |-> {}]]
    /\ userRooms' = userRooms \cup {u}
    /\ sent' = {}
    /\ UNCHANGED <<users, notes, revisions, shares, pc, loc, everRevoked, revokeDone,
                   activeUsers, client>>

\* the note ids a join-note message can carry: a stored note's, or one of no note
JoinIds == NoteIds \cup {"n2"}

\* mutant: join-note lets in every user, as long as the note exists
JoinNote_AnyUser(c, n) ==
    /\ conns[c] # NoConn
    /\ LET u == conns[c].user
           access == n \in DOMAIN notes
           active == activeUsers[n] \cup {u}
       IN IF ~access
          THEN /\ sent' = {[NoMessage EXCEPT !.to = c, !.event = "error",
                                             !.action = "You do not have access to this note"]}
               /\ UNCHANGED <<conns, activeUsers>>
          ELSE /\ conns' = [conns EXCEPT ![c].rooms = @ \cup {n}]
               /\ activeUsers' = [activeUsers EXCEPT ![n] = active]
               /\ sent' = {[NoMessage EXCEPT !.to = d, !.event = "user-joined", !.user = u,
                                             !.users = active] : d \in NoteRoom(n) \ {c}}
                          \cup {[NoMessage EXCEPT !.to = c, !.event = "active-users",
                                                  !.nid = n, !.users = active]}
    /\ UNCHANGED <<users, notes, revisions, shares, pc, loc, everRevoked, revokeDone,
                   userRooms, client>>

\* socket.on("join-note"): getNoteById(noteId, socket.userId) decides; on success the
\* socket joins the note's room, the user is added to activeUsers, the others in the
\* room get user-joined and the socket gets active-users
JoinNote(c, n) ==
    /\ conns[c] # NoConn
    /\ LET u == conns[c].user
           access == /\ n \in DOMAIN notes
                     /\ notes[n].ownerId = u \/ MatchingShares(n, u) # {}
           active == activeUsers[n] \cup {u}
       IN IF ~access
          THEN /\ sent' = {[NoMessage EXCEPT !.to = c, !.event = "error",
                                             !.action = "You do not have access to this note"]}
               /\ UNCHANGED <<conns, activeUsers>>
          ELSE /\ conns' = [conns EXCEPT ![c].rooms = @ \cup {n}]
               /\ activeUsers' = [activeUsers EXCEPT ![n] = active]
               /\ sent' = {[NoMessage EXCEPT !.to = d, !.event = "user-joined", !.user = u,
                                             !.users = active] : d \in NoteRoom(n) \ {c}}
                          \cup {[NoMessage EXCEPT !.to = c, !.event = "active-users",
                                                  !.nid = n, !.users = active]}
    /\ UNCHANGED <<users, notes, revisions, shares, pc, loc, everRevoked, revokeDone,
                   userRooms, client>>

\* socket.on("leave-note"): a socket that is in the room leaves it, the user is
\* removed from activeUsers and the sockets left in the room get user-left; nothing
\* happens for a socket that is not in the room
LeaveNote(c, n) ==
    /\ conns[c] # NoConn
    /\ IF n \notin conns[c].rooms
       THEN /\ sent' = {}
            /\ UNCHANGED <<conns, activeUsers>>
       ELSE LET u == conns[c].user
                active == activeUsers[n] \ {u}
            IN /\ conns' = [conns EXCEPT ![c].rooms = @ \ {n}]
               /\ activeUsers' = [activeUsers EXCEPT ![n] = active]
               /\ sent' = {[NoMessage EXCEPT !.to = d, !.event = "user-left", !.user = u,
                                             !.users = active] : d \in NoteRoom(n) \ {c}}
    /\ UNCHANGED <<users, notes, revisions, shares, pc, loc, everRevoked, revokeDone,
                   userRooms, client>>

\* mutant: content-change relays the change whether or not the socket is in the room
ContentChange_NoRoomCheck(c, n, content, title, p) ==
    /\ conns[c] # NoConn
    /\ sent' = {[NoMessage EXCEPT !.to = d, !.event = "content-update", !.nid = n,
                                  !.user = conns[c].user, !.content = content] :
                    d \in NoteRoom(n) \ {c}}
    /\ UNCHANGED <<pc, loc>>
    /\ UNCHANGED <<users, notes, revisions, shares, everRevoked, revokeDone, sockets>>

\* mutant: content-change relays with io.to(room), which reaches the sender too
ContentChange_Echo(c, n, content, title, p) ==
    /\ conns[c] # NoConn
    /\ IF n \notin conns[c].rooms
       THEN /\ sent' = {}
            /\ UNCHANGED <<pc, loc>>
       ELSE LET update == [NoMessage EXCEPT !.event = "content-update", !.nid = n,
                                            !.user = conns[c].user, !.content = content]
                relay == {[update EXCEPT !.to = d] : d \in NoteRoom(n)}
            IN IF title = ""
               THEN /\ sent' = relay
                    /\ UNCHANGED <<pc, loc>>
               ELSE /\ UpdateStart(p, n, conns[c].user,
                                   [ContentPatch(content) EXCEPT !.hasTitle = TRUE,
                                                                 !.title = title])
                    /\ sent' = relay \cup
                               (IF pc'[p] = "done"
                                THEN {[NoMessage EXCEPT !.to = c, !.event = "error",
                                                        !.action = "Failed to save note"]}
                                ELSE {})
    /\ UNCHANGED <<users, notes, revisions, shares, everRevoked, revokeDone, sockets>>

\* mutant: content-change saves in the name of the note's owner
ContentChange_AsOwner(c, n, content, title, p) ==
    /\ conns[c] # NoConn
    /\ IF n \notin conns[c].rooms
       THEN /\ sent' = {}
            /\ UNCHANGED <<pc, loc>>
       ELSE LET update == [NoMessage EXCEPT !.event = "content-update", !.nid = n,
                                            !.user = conns[c].user, !.content = content]
                relay == {[update EXCEPT !.to = d] : d \in NoteRoom(n) \ {c}}
            IN IF title = ""
               THEN /\ sent' = relay
                    /\ UNCHANGED <<pc, loc>>
               ELSE /\ UpdateStart(p, n, notes[n].ownerId,
                                   [ContentPatch(content) EXCEPT !.hasTitle = TRUE,
                                                                 !.title = title])
                    /\ sent' = relay \cup
                               (IF pc'[p] = "done"
                                THEN {[NoMessage EXCEPT !.to = c, !.event = "error",
                                                        !.action = "Failed to save note"]}
                                ELSE {})
    /\ UNCHANGED <<users, notes, revisions, shares, everRevoked, revokeDone, sockets>>

\* socket.on("content-change"): a socket that is in the room has the change sent as
\* content-update to the other sockets of the room; when the change carries a title
\* (non-empty), updateNote(noteId, userId, {content, title}) is called, here up to its
\* first write, and its failure is reported to the socket as an error event; nothing
\* happens for a socket that is not in the room
ContentChange(c, n, content, title, p) ==
    /\ conns[c] # NoConn
    /\ IF n \notin conns[c].rooms
       THEN /\ sent' = {}
            /\ UNCHANGED <<pc, loc>>
       ELSE LET update == [NoMessage EXCEPT !.event = "content-update", !.nid = n,
                                            !.user = conns[c].user, !.content = content]
                relay == {[update EXCEPT !.to = d] : d \in NoteRoom(n) \ {c}}
            IN IF title = ""
               THEN /\ sent' = relay
                    /\ UNCHANGED <<pc, loc>>
               ELSE /\ UpdateStart(p, n, conns[c].user,
                                   [ContentPatch(content) EXCEPT !.hasTitle = TRUE,
                                                                 !.title = title])
                    /\ sent' = relay \cup
                               (IF pc'[p] = "done"
                                THEN {[NoMessage EXCEPT !.to = c, !.event = "error",
                                                        !.action = "Failed to save note"]}
                                ELSE {})
    /\ UNCHANGED <<users, notes, revisions, shares, everRevoked, revokeDone, sockets>>

\* socket.on("cursor-position"): a socket that is in the room has its position sent as
\* cursor-update, with its user id, to the other sockets of the room
CursorPosition(c, n) ==
    /\ conns[c] # NoConn
    /\ sent' = IF n \in conns[c].rooms
               THEN {[NoMessage EXCEPT !.to = d, !.event = "cursor-update",
                                       !.user = conns[c].user] : d \in NoteRoom(n) \ {c}}
               ELSE {}
    /\ UNCHANGED <<users, notes, revisions, shares, pc, loc, everRevoked, revokeDone,
                   sockets>>

\* socket.on("disconnect"): for every room of the socket the user is removed from
\* activeUsers and the others in the room get user-left; userRooms keeps its entry
Disconnect(c) ==
    /\ conns[c] # NoConn
    /\ LET u == conns[c].user
           left == [n \in NoteIds |-> IF n \in conns[c].rooms THEN activeUsers[n] \ {u}
                                      ELSE activeUsers[n]]
       IN /\ activeUsers' = left
          /\ sent' = UNION {{[NoMessage EXCEPT !.to = d, !.event = "user-left",
                                               !.user = u, !.users = left[n]] :
                                 d \in NoteRoom(n) \ {c}} : n \in conns[c].rooms}
    /\ conns' = [conns EXCEPT ![c] = NoConn]
    /\ UNCHANGED <<users, notes, revisions, shares, pc, loc, everRevoked, revokeDone,
                   userRooms, client>>

\* ---------------------------------------------------------------- specifications
\* The note store and the revision ledger: requests of the note's owner "A", of a
\* user without access ("B") and of an unknown user id ("C"), two at a time.
NextNotes ==
    \/ \E p \in Procs, u \in {"A", "C"}, c \in Contents :
          RoomForRevision(MaxRevisions) /\ CreateNote(p, u, "T", c)
    \/ \E p \in Procs : CreateSaveRevision(p)
    \/ \E p \in Procs, n \in NoteIds, u \in {"A", "B"}, patch \in Patches :
          RoomForRevision(MaxRevisions) /\ UpdateRead(p, n, u, patch)
    \/ \E p \in Procs : UpdateSaveRevision(p)
    \/ \E p \in Procs : UpdateSaveNote(p)
    \/ \E p \in Procs, n \in NoteIds, r \in 0..Len(revisions), u \in {"A", "B"} :
          RoomForRevision(MaxRevisions) /\ RestoreRead(p, n, r, u)
    \/ \E p \in Procs : RestoreFindRevision(p)
    \/ \E p \in Procs : RestoreSaveRevision(p)
    \/ \E p \in Procs : RestoreSaveNote(p)
    \/ \E p \in Procs : Return(p)

SpecNotes == Init /\ [][NextNotes]_vars

\* Two requests of the owner racing on one note, content edits only.
NextRace ==
    \/ \E p \in Procs, c \in RaceContents :
          RoomForRevision(RaceRevisions) /\ CreateNote(p, "A", "T", c)
    \/ \E p \in Procs : CreateSaveRevision(p)
    \/ \E p \in Procs, n \in NoteIds, c \in RaceContents :
          RoomForRevision(RaceRevisions) /\ UpdateRead(p, n, "A", ContentPatch(c))
    \/ \E p \in Procs : UpdateSaveRevision(p)
    \/ \E p \in Procs : UpdateSaveNote(p)
    \/ \E p \in Procs : Return(p)

SpecRace == Init /\ [][NextRace]_vars

\* The share registry: the owner "A" shares one note by email, with "B" (who has an
\* account) or with the address of "C" (who has none yet); "B" accepts, declines,
\* reads and edits; "A" revokes; "B" also tries the owner-only calls.
NextShares ==
    \/ \E p \in Procs : RoomForRevision(ShareRevisions) /\ CreateNote(p, "A", "T", "X")
    \/ \E p \in Procs : CreateSaveRevision(p)
    \/ \E p \in Procs, n \in NoteIds, u \in {"A", "B"}, e \in {Email["B"], Email["C"]},
          perm \in Permissions : RoomForShare /\ ShareRead(p, n, u, e, perm)
    \/ \E p \in Procs : ShareSave(p)
    \/ \E p \in Procs, token \in 1..MaxShares, u \in {"B"} : AcceptRead(p, token, u)
    \/ \E p \in Procs : AcceptSave(p)
    \/ \E p \in Procs, token \in 1..MaxShares, u \in {"B"} : DeclineRead(p, token, u)
    \/ \E p \in Procs : DeclineSave(p)
    \/ \E p \in Procs, s \in 1..MaxShares, u \in {"A", "B"} : RevokeRead(p, s, u)
    \/ \E p \in Procs : RevokeCheckOwner(p)
    \/ \E p \in Procs : RevokeSave(p)
    \/ \E p \in Procs, n \in NoteIds, u \in {"B"} : GetNote(p, n, u)
    \/ \E p \in Procs, n \in NoteIds, u \in {"B"} :
          RoomForRevision(ShareRevisions) /\ UpdateRead(p, n, u, ContentPatch("Y"))
    \/ \E p \in Procs : UpdateSaveRevision(p)
    \/ \E p \in Procs : UpdateSaveNote(p)
    \/ \E p \in Procs : Return(p)

SpecShares == Init /\ [][NextShares]_vars

\* The recipients of a share: the owner "A" shares one note with the address of "B"
\* or of "C"; "C" registers at some point; every account, the owner included, tries to
\* accept and to decline.
NextRecipients ==
    \/ \E p \in Procs : RoomForRevision(ShareRevisions) /\ CreateNote(p, "A", "T", "X")
    \/ \E p \in Procs : CreateSaveRevision(p)
    \/ Register("C")
    \/ \E p \in Procs, n \in NoteIds, e \in {Email["B"], Email["C"]} :
          RoomForShare /\ ShareRead(p, n, "A", e, "read")
    \/ \E p \in Procs : ShareSave(p)
    \/ \E p \in Procs, token \in 1..MaxShares, u \in Users : AcceptRead(p, token, u)
    \/ \E p \in Procs : AcceptSave(p)
    \/ \E p \in Procs, token \in 1..MaxShares, u \in Users : DeclineRead(p, token, u)
    \/ \E p \in Procs : DeclineSave(p)
    \/ \E p \in Procs : Return(p)

SpecRecipients == Init /\ [][NextRecipients]_vars

\* The owner's own access: "A" shares the note with their own address or with "B",
\* read-only or edit, accepts, declines and revokes, and reads and edits the note.
NextOwner ==
    \/ \E p \in Procs : RoomForRevision(ShareRevisions) /\ CreateNote(p, "A", "T", "X")
    \/ \E p \in Procs : CreateSaveRevision(p)
    \/ \E p \in Procs, n \in NoteIds, e \in {Email["A"], Email["B"]}, perm \in Permissions :
          RoomForShare /\ ShareRead(p, n, "A", e, perm)
    \/ \E p \in Procs : ShareSave(p)
    \/ \E p \in Procs, token \in 1..MaxShares : AcceptRead(p, token, "A")
    \/ \E p \in Procs : AcceptSave(p)
    \/ \E p \in Procs, token \in 1..MaxShares : DeclineRead(p, token, "A")
    \/ \E p \in Procs : DeclineSave(p)
    \/ \E p \in Procs, s \in 1..MaxShares : RevokeRead(p, s, "A")
    \/ \E p \in Procs : RevokeCheckOwner(p)
    \/ \E p \in Procs : RevokeSave(p)
    \/ \E p \in Procs, n \in NoteIds : GetNote(p, n, "A")
    \/ \E p \in Procs, n \in NoteIds :
          RoomForRevision(ShareRevisions) /\ UpdateRead(p, n, "A", ContentPatch("Y"))
    \/ \E p \in Procs : UpdateSaveRevision(p)
    \/ \E p \in Procs : UpdateSaveNote(p)
    \/ \E p \in Procs : Return(p)

SpecOwner == Init /\ [][NextOwner]_vars

\* Restoring by a collaborator: "A" shares the note with "B", read-only or edit, "B"
\* accepts, and both restore revisions of the note.
NextRestoreShared ==
    \/ \E p \in Procs : RoomForRevision(MaxRevisions) /\ CreateNote(p, "A", "T", "X")
    \/ \E p \in Procs : CreateSaveRevision(p)
    \/ \E p \in Procs, n \in NoteIds, perm \in Permissions :
          RoomForShare /\ ShareRead(p, n, "A", Email["B"], perm)
    \/ \E p \in Procs : ShareSave(p)
    \/ \E p \in Procs, token \in 1..MaxShares : AcceptRead(p, token, "B")
    \/ \E p \in Procs : AcceptSave(p)
    \/ \E p \in Procs, n \in NoteIds, r \in 0..Len(revisions), u \in {"A", "B"} :
          RoomForRevision(MaxRevisions) /\ RestoreRead(p, n, r, u)
    \/ \E p \in Procs : RestoreFindRevision(p)
    \/ \E p \in Procs : RestoreSaveRevision(p)
    \/ \E p \in Procs : RestoreSaveNote(p)
    \/ \E p \in Procs : Return(p)

SpecRestoreShared == Init /\ [][NextRestoreShared]_vars

\* Creating shares: "A" shares the note several times, with "B" or with the address
\* of "C"; "B" accepts and tries to share the note on.
NextSharing ==
    \/ \E p \in Procs : RoomForRevision(ShareRevisions) /\ CreateNote(p, "A", "T", "X")
    \/ \E p \in Procs : CreateSaveRevision(p)
    \/ \E p \in Procs, n \in NoteIds, u \in {"A", "B"}, e \in {Email["B"], Email["C"]},
          perm \in Permissions :
          /\ Cardinality(DOMAIN shares) + PendingShares < TokenShares
          /\ ShareRead(p, n, u, e, perm)
    \/ \E p \in Procs : ShareSave(p)
    \/ \E p \in Procs, token \in 1..TokenShares : AcceptRead(p, token, "B")
    \/ \E p \in Procs : AcceptSave(p)
    \/ \E p \in Procs : Return(p)

SpecSharing == Init /\ [][NextSharing]_vars

\* Notifications: "A" and "B" each open a socket while "A" shares the note with "B" or
\* with the address of "C", "B" accepts or declines, and both call revokeShare.
NextNotify ==
    \/ \E p \in Procs : RoomForRevision(ShareRevisions) /\ CreateNote(p, "A", "T", "X")
    \/ \E p \in Procs : CreateSaveRevision(p)
    \/ \E p \in Procs, n \in NoteIds, e \in {Email["B"], Email["C"]} :
          RoomForShare /\ ShareRead(p, n, "A", e, "read")
    \/ \E p \in Procs : ShareSave(p)
    \/ \E p \in Procs, token \in 1..MaxShares : AcceptRead(p, token, "B")
    \/ \E p \in Procs : AcceptSave(p)
    \/ \E p \in Procs, token \in 1..MaxShares : DeclineRead(p, token, "B")
    \/ \E p \in Procs : DeclineSave(p)
    \/ \E p \in Procs, s \in 1..MaxShares, u \in {"A", "B"} : RevokeRead(p, s, u)
    \/ \E p \in Procs : RevokeCheckOwner(p)
    \/ \E p \in Procs : RevokeSave(p)
    \/ Connect("c1", "A") \/ Connect("c2", "B")
    \/ \E p \in Procs : Return(p)

SpecNotify == Init /\ [][NextNotify]_vars

\* The same with the note's room: the sockets also join the room and disconnect.
NextRooms ==
    \/ NextNotify
    \/ \E c \in Conns, n \in NoteIds : JoinNote(c, n)
    \/ \E c \in Conns : Disconnect(c)

SpecRooms == Init /\ [][NextRooms]_vars

\* Edits that carry no new content: the owner "A" creates the note with content "X" and
\* changes its title, its archive flag, or sends "X" or "Y" as content.
NextFrame ==
    \/ \E p \in Procs : RoomForRevision(ShareRevisions) /\ CreateNote(p, "A", "T", "X")
    \/ \E p \in Procs : CreateSaveRevision(p)
    \/ \E p \in Procs, n \in NoteIds, patch \in FramePatches \cup {ContentPatch("Y")} :
          RoomForRevision(ShareRevisions) /\ UpdateRead(p, n, "A", patch)
    \/ \E p \in Procs : UpdateSaveRevision(p)
    \/ \E p \in Procs : UpdateSaveNote(p)
    \/ \E p \in Procs : Return(p)

SpecFrame == Init /\ [][NextFrame]_vars

\* The ledger as its readers see it: the owner "A" creates the note with content "X",
\* edits its content, restores revisions and lists them.
NextLedger ==
    \/ \E p \in Procs : RoomForRevision(MaxRevisions) /\ CreateNote(p, "A", "T", "X")
    \/ \E p \in Procs : CreateSaveRevision(p)
    \/ \E p \in Procs, n \in NoteIds, c \in {"X", "Y"} :
          RoomForRevision(MaxRevisions) /\ UpdateRead(p, n, "A", ContentPatch(c))
    \/ \E p \in Procs : UpdateSaveRevision(p)
    \/ \E p \in Procs : UpdateSaveNote(p)
    \/ \E p \in Procs, n \in NoteIds, r \in 1..Len(revisions) :
          RoomForRevision(MaxRevisions) /\ RestoreRead(p, n, r, "A")
    \/ \E p \in Procs : RestoreFindRevision(p)
    \/ \E p \in Procs : RestoreSaveRevision(p)
    \/ \E p \in Procs : RestoreSaveNote(p)
    \/ \E p \in Procs, n \in NoteIds, u \in {"A", "B"} : RevisionsRead(p, n, u)
    \/ \E p \in Procs : RevisionsFind(p)
    \/ \E p \in Procs : Return(p)

SpecLedger == Init /\ [][NextLedger]_vars

\* Joining: "A" creates the note, shares it with "B" and revokes the share, "B"
\* accepts, one request at a time; each has a socket that joins and leaves rooms and disconnects.
NextJoin ==
    \/ \E p \in {"p1"} : RoomForRevision(ShareRevisions) /\ CreateNote(p, "A", "T", "X")
    \/ \E p \in {"p1"} : CreateSaveRevision(p)
    \/ \E p \in {"p1"}, n \in NoteIds : RoomForShare /\ ShareRead(p, n, "A", Email["B"], "read")
    \/ \E p \in {"p1"} : ShareSave(p)
    \/ \E p \in {"p1"}, token \in 1..MaxShares : AcceptRead(p, token, "B")
    \/ \E p \in {"p1"} : AcceptSave(p)
    \/ \E p \in {"p1"}, s \in 1..MaxShares : RevokeRead(p, s, "A")
    \/ \E p \in {"p1"} : RevokeCheckOwner(p)
    \/ \E p \in {"p1"} : RevokeSave(p)
    \/ Connect("c1", "A") \/ Connect("c2", "B")
    \/ \E c \in Conns, n \in JoinIds : JoinNote(c, n)
    \/ \E c \in Conns, n \in NoteIds : LeaveNote(c, n)
    \/ \E c \in Conns : Disconnect(c)
    \/ \E p \in {"p1"} : Return(p)

SpecJoin == Init /\ [][NextJoin]_vars

\* Live editing: "A" creates the note and shares it with "B", who accepts; their
\* sockets join and leave the note's room and send content changes (with and without
\* a title) and cursor positions for the note and for the id of no note.
NextEdit ==
    \/ RoomForRevision(ShareRevisions) /\ CreateNote("p1", "A", "T", "X")
    \/ CreateSaveRevision("p1")
    \/ \E n \in NoteIds, perm \in Permissions :
          RoomForShare /\ ShareRead("p1", n, "A", Email["B"], perm)
    \/ ShareSave("p1")
    \/ \E token \in 1..MaxShares : AcceptRead("p1", token, "B")
    \/ AcceptSave("p1")
    \/ Connect("c1", "A") \/ Connect("c2", "B")
    \/ \E c \in Conns, n \in NoteIds : JoinNote(c, n)
    \/ \E c \in Conns, n \in NoteIds : LeaveNote(c, n)
    \/ \E c \in Conns, n \in JoinIds, content \in {"X", "Y"}, title \in {"", "U"} :
          /\ title = "" \/ RoomForRevision(ShareRevisions)
          /\ ContentChange(c, n, content, title, "p2")
    \/ \E c \in Conns, n \in JoinIds : CursorPosition(c, n)
    \/ UpdateSaveRevision("p2")
    \/ UpdateSaveNote("p2")
    \/ \E p \in Procs : Return(p)

SpecEdit == Init /\ [][NextEdit]_vars

\* Presence: "A" creates the note and shares it with "B", who accepts; two sockets,
\* each opened by "A" or by "B", join and leave the note's room and disconnect.
NextPresence ==
    \/ RoomForRevision(ShareRevisions) /\ CreateNote("p1", "A", "T", "X")
    \/ CreateSaveRevision("p1")
    \/ \E n \in NoteIds : RoomForShare /\ ShareRead("p1", n, "A", Email["B"], "read")
    \/ ShareSave("p1")
    \/ \E token \in 1..MaxShares : AcceptRead("p1", token, "B")
    \/ AcceptSave("p1")
    \/ \E c \in Conns, u \in {"A", "B"} : Connect(c, u)
    \/ \E c \in Conns, n \in NoteIds : JoinNote(c, n)
    \/ \E c \in Conns, n \in NoteIds : LeaveNote(c, n)
    \/ \E c \in Conns : Disconnect(c)
    \/ Return("p1")

SpecPresence == Init /\ [][NextPresence]_vars

\* Edits over HTTP while sockets are in the note's room: "A" creates the note and
\* edits its content or title with PUT /notes/:id; two sockets of "A" join the room.
NextFanOut ==
    \/ \E p \in Procs : RoomForRevision(ShareRevisions) /\ CreateNote(p, "A", "T", "X")
    \/ \E p \in Procs : CreateSaveRevision(p)
    \/ \E p \in Procs, n \in NoteIds, patch \in {ContentPatch("Y"), TitlePatch("U")} :
          RoomForRevision(ShareRevisions) /\ UpdateRead(p, n, "A", patch)
    \/ \E p \in Procs : UpdateSaveRevision(p)
    \/ \E p \in Procs : UpdateSaveNote(p)
    \/ \E c \in Conns : Connect(c, "A")
    \/ \E c \in Conns, n \in NoteIds : JoinNote(c, n)
    \/ \E c \in Conns : Disconnect(c)
    \/ \E p \in Procs : Return(p)

SpecFanOut == Init /\ [][NextFanOut]_vars

\* Deleting: "A" creates the note once, edits it, restores revisions and shares it
\* with "B", who accepts; "A" and "B" call deleteNote while those calls are in flight.
NextDelete ==
    \/ \E p \in Procs :
          /\ revisions = <<>> /\ \A q \in Procs : pc[q] = "idle"
          /\ CreateNote(p, "A", "T", "X")
    \/ \E p \in Procs : CreateSaveRevision(p)
    \/ \E p \in Procs, n \in NoteIds :
          RoomForRevision(MaxRevisions) /\ UpdateRead(p, n, "A", ContentPatch("Y"))
    \/ \E p \in Procs : UpdateSaveRevision(p)
    \/ \E p \in Procs : UpdateSaveNote(p)
    \/ \E p \in Procs, n \in NoteIds, r \in 1..Len(revisions) :
          RoomForRevision(MaxRevisions) /\ RestoreRead(p, n, r, "A")
    \/ \E p \in Procs : RestoreFindRevision(p)
    \/ \E p \in Procs : RestoreSaveRevision(p)
    \/ \E p \in Procs : RestoreSaveNote(p)
    \/ \E p \in Procs, n \in NoteIds : RoomForShare /\ ShareRead(p, n, "A", Email["B"], "edit")
    \/ \E p \in Procs : ShareSave(p)
    \/ \E p \in Procs, token \in 1..MaxShares : AcceptRead(p, token, "B")
    \/ \E p \in Procs : AcceptSave(p)
    \/ \E p \in Procs, n \in NoteIds, u \in {"A", "B"} : DeleteRead(p, n, u)
    \/ \E p \in Procs : DeleteRevisions(p)
    \/ \E p \in Procs : DeleteShares(p)
    \/ \E p \in Procs : DeleteRemoveNote(p)
    \/ \E p \in Procs : Return(p)

SpecDelete == Init /\ [][NextDelete]_vars

\* The cascade: "A" creates the note once, edits it and shares it with "B" while "A"
\* deletes it; any statement of the cascade may fail.
NextCascade ==
    \/ \E p \in Procs :
          /\ revisions = <<>> /\ \A q \in Procs : pc[q] = "idle"
          /\ CreateNote(p, "A", "T", "X")
    \/ \E p \in Procs : CreateSaveRevision(p)
    \/ \E p \in Procs, n \in NoteIds :
          RoomForRevision(ShareRevisions) /\ UpdateRead(p, n, "A", ContentPatch("Y"))
    \/ \E p \in Procs : UpdateSaveRevision(p)
    \/ \E p \in Procs : UpdateSaveNote(p)
    \/ \E p \in Procs, n \in NoteIds : RoomForShare /\ ShareRead(p, n, "A", Email["B"], "edit")
    \/ \E p \in Procs : ShareSave(p)
    \/ \E p \in Procs, n \in NoteIds : DeleteRead(p, n, "A")
    \/ \E p \in Procs : DeleteRevisions(p)
    \/ \E p \in Procs : DeleteShares(p)
    \/ \E p \in Procs : DeleteRemoveNote(p)
    \/ \E p \in Procs : DeleteStepFails(p)
    \/ \E p \in Procs : Return(p)

SpecCascade == Init /\ [][NextCascade]_vars

\* Searching: "A" creates the note, archives it or edits its content, shares it (up
\* to twice) with their own address or with "B", and revokes; "A" and "B" accept and
\* search; one request at a time.
NextSearch ==
    \/ RoomForRevision(ShareRevisions) /\ CreateNote("p1", "A", "T", "X")
    \/ CreateSaveRevision("p1")
    \/ \E n \in NoteIds, patch \in {ContentPatch("Y"), ArchivePatch(TRUE)} :
          RoomForRevision(ShareRevisions) /\ UpdateRead("p1", n, "A", patch)
    \/ UpdateSaveRevision("p1")
    \/ UpdateSaveNote("p1")
    \/ \E n \in NoteIds, e \in {Email["A"], Email["B"]} :
          /\ Cardinality(DOMAIN shares) + PendingShares < TokenShares
          /\ ShareRead("p1", n, "A", e, "read")
    \/ ShareSave("p1")
    \/ \E token \in 1..TokenShares, u \in {"A", "B"} : AcceptRead("p1", token, u)
    \/ AcceptSave("p1")
    \/ \E s \in 1..TokenShares : RevokeRead("p1", s, "A")
    \/ RevokeCheckOwner("p1")
    \/ RevokeSave("p1")
    \/ \E u \in {"A", "B"}, q \in Queries : SearchOwned("p1", u, q)
    \/ SearchShares("p1")
    \/ SearchShared("p1")
    \/ Return("p1")

SpecSearch == Init /\ [][NextSearch]_vars

\* ---------------------------------------------------------------- the browser
\* The browser of "B" holds the socket "c2". A socket message stays in `sent` until
\* the browser's handler has run on it; each GET /notes/shared it sends is first a
\* request on its way, then a response on its way back, and responses arrive in any
\* order.

\* NoteService.getSharedNotes: the notes of the user's accepted, unrevoked shares
getSharedNotes(u) ==
    {shares[s].noteId : s \in {x \in DOMAIN shares : /\ shares[x].sharedWithId = u
                                                     /\ shares[x].isAccepted = TRUE
                                                     /\ shares[x].isRevoked = FALSE}}

\* no socket message is waiting for the browser's handlers
Handled == \A m \in sent : m.to # "c2"

\* store.fetchSharedNotes, its first half: the request leaves
fetchSharedNotes(c) == [c EXCEPT !.requests = @ + 1]

\* globalSocket.on("connect"): the browser fetches its shared notes
ClientOnConnect ==
    /\ conns["c2"].user = "B"
    /\ ~client.online
    /\ client' = fetchSharedNotes([client EXCEPT !.online = TRUE])
    /\ UNCHANGED <<users, notes, revisions, shares, pc, loc, everRevoked, revokeDone,
                   conns, userRooms, activeUsers, sent>>

\* globalSocket.on("share:updated" / "note-shared" / "notification"): every share
\* event starts a fetch; a share:updated with revoked, and a "share-revoked"
\* notification, also drop the event's note from sharedNotes at once
ClientOn(m) ==
    /\ m \in sent /\ m.to = "c2"
    /\ client.online
    /\ LET fetches == \/ m.event \in {"share:updated", "note-shared"}
                      \/ m.event = "notification"
           drops == \/ m.event = "share:updated" /\ m.action = "revoked"
                    \/ m.event = "notification" /\ m.action = "share-revoked"
           fetched == IF fetches THEN fetchSharedNotes(client) ELSE client
       IN client' = IF drops THEN [fetched EXCEPT !.sharedNotes = @ \ {m.nid}] ELSE fetched
    /\ sent' = sent \ {m}
    /\ UNCHANGED <<users, notes, revisions, shares, pc, loc, everRevoked, revokeDone,
                   conns, userRooms, activeUsers>>

\* store.acceptShare, after POST /notes/share/accept/:token has answered: on success
\* the browser fetches its shared notes
ClientAcceptReturn(p) ==
    /\ pc[p] = "done" /\ loc[p].op = "acceptShare" /\ loc[p].user = "B"
    /\ pc' = [pc EXCEPT ![p] = "idle"]
    /\ loc' = [loc EXCEPT ![p] = NoLocal]
    /\ client' = IF loc[p].result = "ok" THEN fetchSharedNotes(client) ELSE client
    /\ sent' = {}
    /\ UNCHANGED <<users, notes, revisions, shares, everRevoked, revokeDone,
                   conns, userRooms, activeUsers>>

\* the getSharedNotes controller answers one of the browser's requests
ServerFetch ==
    /\ client.requests > 0
    /\ client' = [client EXCEPT !.requests = @ - 1,
                                !.responses = @ \cup {getSharedNotes("B")}]
    /\ UNCHANGED <<users, notes, revisions, shares, pc, loc, everRevoked, revokeDone,
                   conns, userRooms, activeUsers, sent>>

\* store.fetchSharedNotes, its second half: a response arrives and replaces
\* sharedNotes
ClientResponse(r) ==
    /\ r \in client.responses
    /\ client' = [client EXCEPT !.sharedNotes = r, !.responses = @ \ {r}]
    /\ UNCHANGED <<users, notes, revisions, shares, pc, loc, everRevoked, revokeDone,
                   conns, userRooms, activeUsers, sent>>

\* ---------------------------------------------------------------- controllers
\* the message of the Error a NoteService call throws for an outcome of the model:
\* "Forbidden" stands for the permission error of getNoteById, or of the edit check
\* of updateNote and restoreRevision; deleteNote prefixes what its cascade threw
ErrorMessage(op, result) ==
    CASE result = "Forbidden" /\ op \in {"updateNote", "restoreRevision"}
            -> "You do not have permission to edit this note"
      [] result = "Forbidden" /\ op \notin {"updateNote", "restoreRevision"}
            -> "You do not have permission to access this note"
      [] result = "Failed to delete note" -> "Failed to delete note: Database error"
      [] OTHER -> result

\* message.includes(word), for the messages NoteService throws and the words the
\* controllers look for
Includes(message, word) ==
    <<message, word>> \in
        {<<"Note not found", "not found">>,
         <<"Share not found", "not found">>,
         <<"Revision not found", "not found">>,
         <<"User not found", "not found">>,
         <<"You do not have permission to access this note", "permission">>,
         <<"You do not have permission to edit this note", "permission">>,
         <<"Only the owner can delete this note", "Only the owner">>,
         <<"Only the owner can share this note", "Only the owner">>,
         <<"Only the owner can revoke shares", "Only the owner">>,
         <<"Invalid share token", "Invalid">>,
         <<"This share was not intended for you", "not intended">>}

\* the status the controller of the endpoint answers with: 200 on a normal return,
\* else 404 when the message has one of the endpoint's words, else 400
HttpStatus(op, result) ==
    LET message == ErrorMessage(op, result)
        words == IF op = "revokeShare" THEN {"not found", "Only the owner"}
                 ELSE IF op \in {"acceptShare", "declineShare"}
                      THEN {"Invalid", "not found", "not intended"}
                      ELSE {"not found", "permission"}
    IN IF result = "ok" THEN 200
       ELSE IF op \in {"createNote", "searchNotes"} THEN 400
       ELSE IF \E w \in words : Includes(message, w) THEN 404
       ELSE 400

\* Rejections: "A" creates the note and shares it with "B", who accepts; "B", and
\* "C" who holds nothing, call every note and share endpoint; one request at a time.
NextHttp ==
    \/ RoomForRevision(ShareRevisions) /\ CreateNote("p1", "A", "T", "X")
    \/ CreateSaveRevision("p1")
    \/ \E n \in NoteIds, u \in Users, perm \in Permissions :
          RoomForShare /\ ShareRead("p1", n, u, Email["B"], perm)
    \/ ShareSave("p1")
    \/ \E token \in 1..MaxShares : AcceptRead("p1", token, "B")
    \/ AcceptSave("p1")
    \/ \E n \in JoinIds, u \in Users : GetNote("p1", n, u)
    \/ \E n \in JoinIds, u \in Users :
          RoomForRevision(ShareRevisions) /\ UpdateRead("p1", n, u, ContentPatch("Y"))
    \/ UpdateSaveRevision("p1")
    \/ UpdateSaveNote("p1")
    \/ \E n \in JoinIds, u \in Users : DeleteRead("p1", n, u)
    \/ DeleteRevisions("p1")
    \/ DeleteShares("p1")
    \/ DeleteRemoveNote("p1")
    \/ \E s \in 1..TokenShares, u \in Users : RevokeRead("p1", s, u)
    \/ RevokeCheckOwner("p1")
    \/ RevokeSave("p1")
    \/ \E n \in JoinIds, u \in Users : RevisionsRead("p1", n, u)
    \/ RevisionsFind("p1")
    \/ \E n \in JoinIds, r \in 1..ShareRevisions, u \in Users :
          RoomForRevision(ShareRevisions) /\ RestoreRead("p1", n, r, u)
    \/ RestoreFindRevision("p1")
    \/ RestoreSaveRevision("p1")
    \/ RestoreSaveNote("p1")
    \/ Return("p1")

SpecHttp == Init /\ [][NextHttp]_vars

\* Edits whose last save may fail: the owner "A" creates the note and edits its
\* content.
NextAtomic ==
    \/ \E p \in Procs : RoomForRevision(MaxRevisions) /\ CreateNote(p, "A", "T", "X")
    \/ \E p \in Procs : CreateSaveRevision(p)
    \/ \E p \in Procs, n \in NoteIds, c \in {"X", "Y"} :
          RoomForRevision(MaxRevisions) /\ UpdateRead(p, n, "A", ContentPatch(c))
    \/ \E p \in Procs : UpdateSaveRevision(p)
    \/ \E p \in Procs : UpdateSaveNote(p)
    \/ \E p \in Procs : UpdateSaveNoteFails(p)
    \/ \E p \in Procs : Return(p)

SpecAtomic == Init /\ [][NextAtomic]_vars

\* Several shares for one user: "A" shares the note twice with "B", read-only or
\* edit; "B" accepts them, reads the note and edits it; one request at a time.
NextPermission ==
    \/ RoomForRevision(ShareRevisions) /\ CreateNote("p1", "A", "T", "X")
    \/ CreateSaveRevision("p1")
    \/ \E n \in NoteIds, perm \in Permissions :
          /\ Cardinality(DOMAIN shares) + PendingShares < TokenShares
          /\ ShareRead("p1", n, "A", Email["B"], perm)
    \/ ShareSave("p1")
    \/ \E token \in 1..TokenShares : AcceptRead("p1", token, "B")
    \/ AcceptSave("p1")
    \/ \E n \in NoteIds : GetNote("p1", n, "B")
    \/ \E n \in NoteIds, c \in {"X", "Y"} :
          RoomForRevision(ShareRevisions) /\ UpdateRead("p1", n, "B", ContentPatch(c))
    \/ UpdateSaveRevision("p1")
    \/ UpdateSaveNote("p1")
    \/ Return("p1")

SpecPermission == Init /\ [][NextPermission]_vars

\* The browser of "B": it connects; "A" creates the note, shares it with "B" and
\* revokes; "B" accepts from the browser; the server takes one call at a time, and
\* a new one only while fewer than MaxRequests of the browser's requests are waiting;
\* the browser handles each socket message before the next call.
NextClient ==
    \/ Connect("c2", "B")
    \/ ClientOnConnect
    \/ /\ client.online /\ Handled
       /\ pc["p1"] = "idle" => client.requests < MaxRequests
       /\ \/ RoomForRevision(ShareRevisions) /\ CreateNote("p1", "A", "T", "X")
          \/ CreateSaveRevision("p1")
          \/ \E n \in NoteIds : RoomForShare /\ ShareRead("p1", n, "A", Email["B"], "read")
          \/ ShareSave("p1")
          \/ \E token \in 1..MaxShares : AcceptRead("p1", token, "B")
          \/ AcceptSave("p1")
          \/ \E s \in 1..MaxShares : RevokeRead("p1", s, "A")
          \/ RevokeCheckOwner("p1")
          \/ RevokeSave("p1")
          \/ loc["p1"].op # "acceptShare" /\ Return("p1")
          \/ ClientAcceptReturn("p1")
    \/ \E m \in sent : ClientOn(m)
    \/ ServerFetch
    \/ \E r \in client.responses : ClientResponse(r)

SpecClient == Init /\ [][NextClient]_vars

\* ---------------------------------------------------------------- properties
\* a share that lets user u into note n, as the specification words it: addressed to
\* u, accepted and not revoked
ActiveShareOf(s, n, u) ==
    /\ shares[s].noteId = n
    /\ shares[s].sharedWithId = u
    /\ shares[s].isAccepted = TRUE
    /\ shares[s].isRevoked = FALSE

\* request slot p takes a new request of kind op in this step
Starts(p, op) == pc[p] = "idle" /\ pc'[p] # "idle" /\ loc'[p].op = op

\* C1: when two updateNote calls on one note, one writing "X" and one writing "Y",
\* both read version 3 (of a note whose content is neither) and both complete, the
\* stored version is 5, the stored content is one of the two, and both "X" and "Y"
\* are contents of rows of the revision ledger.
C1_RaceFromVersion3 ==
    \A n \in DOMAIN notes :
        (/\ \A p \in Procs : /\ pc[p] = "done"
                             /\ loc[p].op = "updateNote"
                             /\ loc[p].nid = n
                             /\ loc[p].result = "ok"
                             /\ loc[p].readVersion = 3
                             /\ loc[p].readContent \notin {"X", "Y"}
         /\ loc["p1"].patch = ContentPatch("X")
         /\ loc["p2"].patch = ContentPatch("Y"))
        => /\ notes[n].version = 5
           /\ notes[n].content \in {"X", "Y"}
           /\ \E i \in 1..Len(revisions) : revisions[i].noteId = n /\ revisions[i].content = "X"
           /\ \E i \in 1..Len(revisions) : revisions[i].noteId = n /\ revisions[i].content = "Y"

\* C2: an updateNote call that read version V and content C and whose patch carries
\* a content different from C stores, when it succeeds, the note at version V + 1, and
\* has appended one revision, with content C and version V.
C2_ChangedContentBumpsVersion ==
    [][\A p \in Procs :
          (/\ pc[p] = "upd_note"
           /\ pc'[p] = "done"
           /\ loc'[p].result = "ok"
           /\ loc[p].patch.hasContent
           /\ loc[p].patch.content # loc[p].readContent)
          => /\ notes'[loc[p].nid].version = loc[p].readVersion + 1
             /\ loc[p].rev = [noteId |-> loc[p].nid, version |-> loc[p].readVersion,
                              content |-> loc[p].readContent, userId |-> loc[p].user]
             /\ \E i \in 1..Len(revisions) : revisions[i] = loc[p].rev]_vars

\* C3: a stored note at version V has a revision row for each version 1..V-1.
C3_NoGapInRevisions ==
    \A n \in DOMAIN notes :
        \A v \in 1..(notes[n].version - 1) :
            \E i \in 1..Len(revisions) : revisions[i].noteId = n /\ revisions[i].version = v

\* C3 witness: a note that reached version 3 through edits, with its ledger
C3_Witness ==
    \E n \in DOMAIN notes : notes[n].version = 3 /\ Len(revisions) = 3

\* C4: no step changes a note's stored content without raising its version by
\* exactly one, and no step lowers a note's version.
C4_ContentChangeBumpsVersion ==
    [][\A n \in DOMAIN notes :
          /\ notes'[n].version >= notes[n].version
          /\ notes'[n].content # notes[n].content
                => notes'[n].version = notes[n].version + 1]_vars

\* C5: getNote by a user who is not the owner succeeds exactly when the note has a
\* share addressed to that user, accepted and not revoked, and then returns the
\* permission of such a share; a pending share gives nothing.
C5_GetNoteNeedsActiveShare ==
    [][\A p \in Procs :
          (/\ Starts(p, "getNote")
           /\ loc'[p].nid \in DOMAIN notes
           /\ notes[loc'[p].nid].ownerId # loc'[p].user)
          => /\ pc'[p] = "done"
             /\ loc'[p].result = "ok"
                   <=> \E s \in DOMAIN shares : ActiveShareOf(s, loc'[p].nid, loc'[p].user)
             /\ loc'[p].result = "ok"
                   => \E s \in DOMAIN shares :
                         /\ ActiveShareOf(s, loc'[p].nid, loc'[p].user)
                         /\ loc'[p].permission = shares[s].permission
             /\ loc'[p].result # "ok" => loc'[p].result = "Forbidden"]_vars

\* C5 witness: one getNote of "B" was refused while "B" held only a pending share
\* already bound to "B", and one succeeded with the permission of the accepted share
C5_Witness ==
    /\ pc["p1"] = "done" /\ loc["p1"].op = "getNote" /\ loc["p1"].user = "B"
    /\ loc["p1"].result = "Forbidden"
    /\ pc["p2"] = "done" /\ loc["p2"].op = "getNote" /\ loc["p2"].user = "B"
    /\ loc["p2"].result = "ok"
    /\ \E s \in DOMAIN shares : /\ ActiveShareOf(s, loc["p2"].nid, "B")
                                /\ loc["p2"].permission = shares[s].permission

\* C6: updateNote by a user who is neither the owner nor the holder of an accepted,
\* non-revoked edit share fails with the permission error, and the note row and the
\* revision ledger stay as they are.
C6_UpdateNeedsEdit ==
    [][\A p \in Procs :
          (/\ Starts(p, "updateNote")
           /\ loc'[p].nid \in DOMAIN notes
           /\ notes[loc'[p].nid].ownerId # loc'[p].user
           /\ ~\E s \in DOMAIN shares : /\ ActiveShareOf(s, loc'[p].nid, loc'[p].user)
                                        /\ shares[s].permission = "edit")
          => /\ pc'[p] = "done"
             /\ loc'[p].result = "Forbidden"
             /\ notes' = notes
             /\ revisions' = revisions]_vars

\* C6 witness: an updateNote of "B" was refused while "B" held an accepted,
\* non-revoked read share of the note
C6_Witness ==
    \E p \in Procs :
        /\ pc[p] = "done" /\ loc[p].op = "updateNote" /\ loc[p].user = "B"
        /\ loc[p].result = "Forbidden"
        /\ \E s \in DOMAIN shares : /\ ActiveShareOf(s, loc[p].nid, "B")
                                    /\ shares[s].permission = "read"

\* C7: once the owner's revokeShare on a share of user u has completed, every getNote
\* and updateNote that u starts on that note fails, as long as u has no other
\* accepted, non-revoked share of the note.
C7_NoAccessAfterRevoke ==
    [][\A p \in Procs :
          (/\ Starts(p, "getNote") \/ Starts(p, "updateNote")
           /\ loc'[p].nid \in DOMAIN notes
           /\ notes[loc'[p].nid].ownerId # loc'[p].user
           /\ \E s \in revokeDone :
                 /\ shares[s].noteId = loc'[p].nid
                 /\ shares[s].sharedWithId = loc'[p].user
                 /\ \A s2 \in DOMAIN shares \ {s} :
                        ~ActiveShareOf(s2, loc'[p].nid, loc'[p].user))
          => /\ pc'[p] = "done"
             /\ loc'[p].result \in {"Forbidden", "Note not found"}]_vars

\* C8: no step stores isRevoked = false on a share whose stored isRevoked is true, nor
\* isAccepted = false on a share whose stored isAccepted is true.
C8_FlagsMonotonic ==
    [][\A s \in DOMAIN shares :
          /\ shares[s].isRevoked => shares'[s].isRevoked
          /\ shares[s].isAccepted => shares'[s].isAccepted]_vars

\* C9: once a share has been revoked (revokeShare or declineShare stored isRevoked =
\* true), every acceptShare and declineShare started with its token fails with "This
\* share has been revoked" and the share table stays as it is.
C9_RevokedIsFinal ==
    [][\A p \in Procs :
          (/\ Starts(p, "acceptShare") \/ Starts(p, "declineShare")
           /\ loc'[p].sid \in everRevoked)
          => /\ pc'[p] = "done"
             /\ loc'[p].result = "This share has been revoked"
             /\ shares' = shares]_vars

C11_AtMostOneAcceptSucceeds ==
    ~(/\ \A p \in Procs : /\ pc[p] = "done"
                          /\ loc[p].op = "acceptShare"
                          /\ loc[p].result = "ok"
      /\ loc["p1"].sid = loc["p2"].sid)

\* C12: an acceptShare or declineShare call by user U on a share that is bound to
\* another user, or whose target email is not U's email, fails on its read and the
\* share table stays as it is; and every step that binds a share to a user, or marks
\* it accepted, leaves it bound to the account holding the share's target email.
C12_OnlyIntendedRecipient ==
    [][/\ \A p \in Procs :
             (/\ Starts(p, "acceptShare") \/ Starts(p, "declineShare")
              /\ loc'[p].sid \in DOMAIN shares
              /\ \/ shares[loc'[p].sid].sharedWithId \notin {"none", loc'[p].user}
                 \/ shares[loc'[p].sid].email # Email[loc'[p].user])
             => /\ pc'[p] = "done"
                /\ loc'[p].result \notin {"ok", "none"}
                /\ shares' = shares
       /\ \A s \in DOMAIN shares' :
             (\/ s \notin DOMAIN shares
              \/ shares'[s].sharedWithId # shares[s].sharedWithId
              \/ shares'[s].isAccepted /\ ~shares[s].isAccepted)
             => \/ shares'[s].sharedWithId = "none" /\ ~shares'[s].isAccepted
                \/ /\ shares'[s].sharedWithId \in users
                   /\ Email[shares'[s].sharedWithId] = shares'[s].email]_vars

\* C12 witness: "B" was refused on the share addressed to the email of "C", and "C",
\* once registered, accepted it and is the user it is bound to
C12_Witness ==
    /\ pc["p1"] = "done" /\ loc["p1"].op \in {"acceptShare", "declineShare"}
    /\ loc["p1"].user = "B" /\ loc["p1"].sid \in DOMAIN shares
    /\ loc["p1"].result = "This share was intended for a different email address"
    /\ pc["p2"] = "done" /\ loc["p2"].op = "acceptShare" /\ loc["p2"].result = "ok"
    /\ loc["p2"].user = "C" /\ loc["p2"].sid = loc["p1"].sid
    /\ shares[loc["p2"].sid].sharedWithId = "C"

\* C13: a getNote by the note's owner succeeds with permission "edit", and an
\* updateNote by the owner is never refused and returns permission "edit", whatever
\* share rows the note has.
C13_OwnerAlwaysEdit ==
    [][\A p \in Procs :
          /\ (/\ Starts(p, "getNote")
              /\ loc'[p].nid \in DOMAIN notes
              /\ notes[loc'[p].nid].ownerId = loc'[p].user)
             => /\ pc'[p] = "done"
                /\ loc'[p].result = "ok"
                /\ loc'[p].permission = "edit"
          /\ (/\ Starts(p, "updateNote")
              /\ loc'[p].nid \in DOMAIN notes
              /\ notes[loc'[p].nid].ownerId = loc'[p].user)
             => /\ pc'[p] \in {"upd_rev", "upd_note"}
                /\ loc'[p].permission = "edit"
          /\ (/\ pc[p] = "upd_note" /\ pc'[p] = "done"
              /\ notes[loc[p].nid].ownerId = loc[p].user)
             => /\ loc'[p].result = "ok"
                /\ loc'[p].permission = "edit"]_vars

\* C13 witness: the owner holds an accepted, non-revoked, read-only share of their own
\* note, and a getNote and an updateNote of theirs both returned permission "edit"
C13_Witness ==
    /\ \E s \in DOMAIN shares : /\ ActiveShareOf(s, "n1", "A")
                                /\ shares[s].permission = "read"
                                /\ notes["n1"].ownerId = "A"
    /\ pc["p1"] = "done" /\ loc["p1"].op = "getNote" /\ loc["p1"].user = "A"
    /\ loc["p1"].result = "ok" /\ loc["p1"].permission = "edit"
    /\ pc["p2"] = "done" /\ loc["p2"].op = "updateNote" /\ loc["p2"].user = "A"
    /\ loc["p2"].result = "ok" /\ loc["p2"].permission = "edit"

\* C14: a restoreRevision call that read the note at version V with content C and
\* names revision R appends exactly one revision row, holding C at version V, and
\* then stores the note with R's content at version V + 1; no step removes, changes
\* or reorders a row of the revision ledger.
C14_RestoreAppendsAndRestores ==
    [][/\ Len(revisions') >= Len(revisions)
       /\ \A i \in 1..Len(revisions) : revisions'[i] = revisions[i]
       /\ \A p \in Procs :
             /\ (pc[p] = "res_rev" /\ pc'[p] # "res_rev")
                => /\ Len(revisions') = Len(revisions) + 1
                   /\ revisions'[Len(revisions')] =
                         [noteId |-> loc[p].nid, version |-> loc[p].readVersion,
                          content |-> loc[p].readContent, userId |-> loc[p].user]
             /\ (pc[p] = "res_note" /\ pc'[p] = "done")
                => /\ loc'[p].result = "ok"
                   /\ revisions' = revisions
                   /\ notes'[loc[p].nid].content = revisions[loc[p].rid].content
                   /\ notes'[loc[p].nid].version = loc[p].readVersion + 1
                   /\ \E i \in 1..Len(revisions) : revisions[i] = loc[p].rev
             /\ (loc[p].op = "restoreRevision" /\ pc[p] = "res_find" /\ pc'[p] = "done")
                => revisions' = revisions /\ notes' = notes]_vars

\* C14 witness: the note's first revision was restored twice, one call after the
\* other, and the ledger holds the initial row and the two rows the calls appended
C14_Witness ==
    /\ \A p \in Procs : /\ pc[p] = "done" /\ loc[p].op = "restoreRevision"
                        /\ loc[p].result = "ok" /\ loc[p].rid = 1
    /\ loc["p1"].readVersion + 1 = loc["p2"].readVersion
    /\ Len(revisions) = 3
    /\ notes["n1"].version = loc["p2"].readVersion + 1
    /\ notes["n1"].content = revisions[1].content

\* C15: a restoreRevision call passes the permission check when the caller is the
\* note's owner or holds an accepted, non-revoked edit share of the note, and
\* otherwise fails with the permission error, leaving notes and revisions as they are.
C15_RestoreNeedsEdit ==
    [][\A p \in Procs :
          (Starts(p, "restoreRevision") /\ loc'[p].nid \in DOMAIN notes)
          => LET n == loc'[p].nid
                 u == loc'[p].user
                 mayEdit == \/ notes[n].ownerId = u
                            \/ \E s \in DOMAIN shares : /\ ActiveShareOf(s, n, u)
                                                        /\ shares[s].permission = "edit"
             IN IF mayEdit
                THEN pc'[p] = "res_find"
                ELSE /\ pc'[p] = "done"
                     /\ loc'[p].result = "Forbidden"
                     /\ notes' = notes
                     /\ revisions' = revisions]_vars

\* C16: a shareNote call by a user who is not the note's owner fails on its read and
\* the share table stays as it is; a share row appears only through a shareNote call
\* of the note's owner, and it appears not accepted, not revoked, and with a
\* shareToken that no other share row has.
C16_OnlyOwnerCreatesPendingShares ==
    [][/\ \A p \in Procs :
             (/\ Starts(p, "shareNote")
              /\ loc'[p].nid \in DOMAIN notes
              /\ notes[loc'[p].nid].ownerId # loc'[p].user)
             => /\ pc'[p] = "done"
                /\ loc'[p].result \in {"Forbidden", "Only the owner can share this note"}
                /\ shares' = shares
       /\ \A s \in DOMAIN shares' \ DOMAIN shares :
             /\ shares'[s].isAccepted = FALSE
             /\ shares'[s].isRevoked = FALSE
             /\ \A s2 \in DOMAIN shares' \ {s} : shares'[s2].shareToken # shares'[s].shareToken
             /\ \E p \in Procs : /\ loc[p].op = "shareNote"
                                 /\ pc'[p] = "done" /\ loc'[p].result = "ok"
                                 /\ loc[p].nid = shares'[s].noteId
                                 /\ notes[loc[p].nid].ownerId = loc[p].user]_vars

\* C16 witness: "B" holds an accepted edit share, was refused when sharing the note
\* on, and the owner has created a second share, pending, with another token
C16_Witness ==
    /\ \E s \in DOMAIN shares : ActiveShareOf(s, "n1", "B") /\ shares[s].permission = "edit"
    /\ \E p \in Procs : /\ pc[p] = "done" /\ loc[p].op = "shareNote" /\ loc[p].user = "B"
                        /\ loc[p].result = "Only the owner can share this note"
    /\ \E p \in Procs : /\ pc[p] = "done" /\ loc[p].op = "shareNote" /\ loc[p].user = "A"
                        /\ loc[p].result = "ok" /\ loc[p].sid = 2
                        /\ ~shares[2].isAccepted /\ ~shares[2].isRevoked
                        /\ shares[2].shareToken # shares[1].shareToken

\* C17: no step of a revokeShare call made by a user who is not the owner of the
\* share's note changes the share table or delivers a socket message, and the call
\* ends with an error at its owner check; a step that stores isRevoked = true on a
\* share that was not revoked is the save of a revokeShare call of the note's owner
\* (or the save of a declineShare call), and the owner's save does store it.
C17_OnlyOwnerRevokes ==
    [][/\ \A p \in Procs :
             /\ (/\ loc'[p].op = "revokeShare"
                 /\ loc'[p] # loc[p] \/ pc'[p] # pc[p]
                 /\ loc'[p].sid \in DOMAIN shares
                 /\ notes[shares[loc'[p].sid].noteId].ownerId # loc'[p].user)
                => /\ shares' = shares
                   /\ sent' = {}
                   /\ pc'[p] \in {"rvk_check", "done"}
                   /\ pc'[p] = "done"
                         => loc'[p].result \in {"Forbidden", "Only the owner can revoke shares"}
             /\ (/\ pc[p] = "rvk_save" /\ pc'[p] = "done")
                => /\ notes[loc[p].nid].ownerId = loc[p].user
                   /\ shares'[loc[p].sid].isRevoked
       /\ \A s \in DOMAIN shares :
             (~shares[s].isRevoked /\ shares'[s].isRevoked)
             => \E p \in Procs :
                   /\ loc[p].sid = s /\ pc'[p] = "done"
                   /\ \/ pc[p] = "rvk_save" /\ notes[shares[s].noteId].ownerId = loc[p].user
                      \/ pc[p] = "dec_save"]_vars

\* C17 witness: "B", holding the accepted share and connected like the owner, called
\* revokeShare on it and was refused; the share is still accepted and not revoked
C17_Witness ==
    /\ conns["c1"].user = "A" /\ conns["c2"].user = "B"
    /\ \E p \in Procs :
          /\ pc[p] = "done" /\ loc[p].op = "revokeShare" /\ loc[p].user = "B"
          /\ loc[p].result = "Only the owner can revoke shares"
          /\ loc[p].sid \in DOMAIN shares
          /\ ActiveShareOf(loc[p].sid, "n1", "B")
    /\ sent = {}

\* C18: the step that completes a revokeShare call delivers a share:updated message
\* with revoked = true, for the share and its note, to every socket that is in the
\* note's room at that time.
C18_RevokeReachesTheRoom ==
    [][\A p \in Procs :
          (pc[p] = "rvk_save" /\ pc'[p] = "done" /\ loc'[p].result = "ok")
          => \A c \in NoteRoom(loc[p].nid) :
                [NoMessage EXCEPT !.to = c, !.event = "share:updated", !.action = "revoked",
                                  !.nid = loc[p].nid, !.sid = loc[p].sid] \in sent']_vars

\* C19: a revokeShare call of the owner that read the share already revoked leaves
\* the stored share as the earlier call left it and delivers no socket message.
C19_SecondRevokeIsSilent ==
    [][\A p \in Procs :
          (/\ pc[p] = "rvk_save" /\ pc'[p] = "done"
           /\ loc[p].share.isRevoked
           /\ loc[p].sid \in revokeDone)
          => /\ shares'[loc[p].sid] = loc[p].share
             /\ sent' = {}]_vars

\* C20: a declineShare call by the user a pending share is addressed to passes the
\* guards, and its save stores the share with isRevoked = true and isAccepted = false
\* and delivers a "share-declined" notification to every connected socket of the
\* note's owner; a declineShare call on a share that is accepted and not revoked
\* fails with the "already accepted" error, writes nothing and delivers nothing.
C20_DeclineRevokesAndNotifies ==
    [][\A p \in Procs :
          /\ (/\ Starts(p, "declineShare")
              /\ loc'[p].sid \in DOMAIN shares
              /\ ~shares[loc'[p].sid].isAccepted /\ ~shares[loc'[p].sid].isRevoked
              /\ loc'[p].user \in users
              /\ shares[loc'[p].sid].sharedWithId \in {"none", loc'[p].user}
              /\ shares[loc'[p].sid].email = Email[loc'[p].user])
             => pc'[p] = "dec_save"
          /\ (pc[p] = "dec_save" /\ pc'[p] # "dec_save")
             => /\ pc'[p] = "done" /\ loc'[p].result = "ok"
                /\ shares'[loc[p].sid].isRevoked = TRUE
                /\ shares'[loc[p].sid].isAccepted = FALSE
                /\ \A c \in Conns :
                      conns[c].user = notes[shares[loc[p].sid].noteId].ownerId
                      => [NoMessage EXCEPT !.to = c, !.event = "notification",
                                           !.action = "share-declined",
                                           !.nid = shares[loc[p].sid].noteId,
                                           !.sid = loc[p].sid] \in sent'
          /\ (/\ Starts(p, "declineShare")
              /\ loc'[p].sid \in DOMAIN shares
              /\ shares[loc'[p].sid].isAccepted /\ ~shares[loc'[p].sid].isRevoked)
             => /\ pc'[p] = "done"
                /\ loc'[p].result = "This share has already been accepted and cannot be declined"
                /\ shares' = shares
                /\ sent' = {}]_vars

\* C20 witness: "B" has just declined the pending share addressed to them; it is
\* stored revoked and not accepted, and the owner's socket got the notification
C20_Witness ==
    /\ conns["c1"].user = "A"
    /\ \E p \in Procs :
          /\ pc[p] = "done" /\ loc[p].op = "declineShare" /\ loc[p].user = "B"
          /\ loc[p].result = "ok"
          /\ shares[loc[p].sid].isRevoked /\ ~shares[loc[p].sid].isAccepted
          /\ \E m \in sent : /\ m.to = "c1" /\ m.event = "notification"
                             /\ m.action = "share-declined" /\ m.sid = loc[p].sid

\* C21: an updateNote call whose patch carries no content, or the content the call
\* read, never inserts a revision, and its save stores the note with the version and
\* the content the call read, and with the title and archive flag of the patch.
C21_TitleOnlyKeepsVersion ==
    [][\A p \in Procs :
          /\ (/\ Starts(p, "updateNote")
              /\ loc'[p].nid \in DOMAIN notes
              /\ \/ ~loc'[p].patch.hasContent
                 \/ loc'[p].patch.content = notes[loc'[p].nid].content)
             => /\ pc'[p] # "upd_rev"
                /\ revisions' = revisions /\ notes' = notes
          /\ (/\ pc[p] = "upd_note" /\ pc'[p] # "upd_note"
              /\ \/ ~loc[p].patch.hasContent
                 \/ loc[p].patch.content = loc[p].readContent)
             => /\ pc'[p] = "done" /\ loc'[p].result = "ok"
                /\ revisions' = revisions
                /\ notes'[loc[p].nid].version = loc[p].readVersion
                /\ notes'[loc[p].nid].content = loc[p].readContent
                /\ loc[p].patch.hasTitle => notes'[loc[p].nid].title = loc[p].patch.title
                /\ loc[p].patch.hasArchived
                      => notes'[loc[p].nid].isArchived = loc[p].patch.isArchived]_vars

\* C21 witness: the owner has renamed and archived the note, which is still at
\* version 1 with its first content and its one initial revision
C21_Witness ==
    /\ \E p \in Procs : /\ pc[p] = "done" /\ loc[p].op = "updateNote" /\ loc[p].result = "ok"
                        /\ loc[p].patch.hasTitle /\ loc[p].patch.hasArchived
                        /\ ~loc[p].patch.hasContent
    /\ notes["n1"].title = "U" /\ notes["n1"].isArchived
    /\ notes["n1"].version = 1 /\ notes["n1"].content = "X"
    /\ Len(revisions) = 1

\* C22: with no other request in flight, the revision list getNoteRevisions returns
\* for a note at version 1 is empty, and the list it returns for a note that the one
\* update from version 1 has brought to version 2 holds exactly one revision, with the
\* note's first content and version 1.
C22_RevisionListAfterCreateAndUpdate ==
    [][\A p \in Procs :
          (/\ pc[p] = "rvs_find" /\ pc'[p] = "done"
           /\ \A q \in Procs \ {p} : pc[q] \in {"idle", "done"})
          => LET n == loc[p].nid
                 list == loc'[p].list
             IN /\ notes[n].version = 1 => list = <<>>
                /\ (/\ notes[n].version = 2
                    /\ \E q \in Procs \ {p} :
                          /\ pc[q] = "done" /\ loc[q].op = "updateNote"
                          /\ loc[q].result = "ok" /\ loc[q].readVersion = 1
                          /\ loc[q].patch.hasContent
                          /\ loc[q].patch.content # loc[q].readContent)
                   => /\ Len(list) = 1
                      /\ revisions[list[1]].version = 1
                      /\ revisions[list[1]].content = "X"]_vars

\* C23: a createNote call for a registered user stores a new note at version 1 owned
\* by that user and then appends exactly one revision, with the note's initial content
\* at version 1; a createNote call for a user id without an account fails with "User
\* not found" and leaves notes and revisions as they are.
C23_CreateWritesNoteAndRevision ==
    [][\A p \in Procs :
          /\ (Starts(p, "createNote") /\ loc'[p].user \in users)
             => /\ pc'[p] = "crt_rev"
                /\ revisions' = revisions
                /\ loc'[p].nid \notin DOMAIN notes
                /\ DOMAIN notes' = DOMAIN notes \cup {loc'[p].nid}
                /\ notes'[loc'[p].nid].version = 1
                /\ notes'[loc'[p].nid].ownerId = loc'[p].user
                /\ notes'[loc'[p].nid].content = loc'[p].note.content
          /\ (pc[p] = "crt_rev" /\ pc'[p] # "crt_rev")
             => /\ pc'[p] = "done" /\ loc'[p].result = "ok"
                /\ notes' = notes
                /\ revisions' = Append(revisions,
                                       [noteId |-> loc[p].nid, version |-> 1,
                                        content |-> loc[p].note.content,
                                        userId |-> loc[p].user])
          /\ (Starts(p, "createNote") /\ loc'[p].user \notin users)
             => /\ pc'[p] = "done" /\ loc'[p].result = "User not found"
                /\ notes' = notes
                /\ revisions' = revisions]_vars

\* C23 witness: a createNote for the unknown id "C" was refused, a createNote of "A"
\* succeeded, and the store holds the one note at version 1 and its one revision
C23_Witness ==
    /\ pc["p1"] = "done" /\ loc["p1"].op = "createNote" /\ loc["p1"].user = "C"
    /\ loc["p1"].result = "User not found"
    /\ pc["p2"] = "done" /\ loc["p2"].op = "createNote" /\ loc["p2"].user = "A"
    /\ loc["p2"].result = "ok"
    /\ DOMAIN notes = {"n1"} /\ notes["n1"].version = 1 /\ notes["n1"].ownerId = "A"
    /\ revisions = <<[noteId |-> "n1", version |-> 1, content |-> notes["n1"].content,
                      userId |-> "A"]>>

\* C24: no two rows of the revision ledger belong to the same note and carry the
\* same version number.
C24_RevisionVersionsUnique ==
    \A i, j \in 1..Len(revisions) :
        (i # j /\ revisions[i].noteId = revisions[j].noteId)
        => revisions[i].version # revisions[j].version

\* the error event join-note sends to socket c
JoinRefused(c) ==
    [NoMessage EXCEPT !.to = c, !.event = "error",
                      !.action = "You do not have access to this note"]

\* C25: a step that puts a socket into a note's room, or a user into a note's
\* active-participant set, is taken while that user owns the note or holds an
\* accepted, unrevoked share of it; a join-note of a user who has neither delivers
\* the access error; and a step that delivers the access error to a socket delivers
\* nothing else, to nobody else, and leaves every socket's connection and rooms and
\* every active-participant set as they were.
C25_JoinChecksAccess ==
    [][/\ \A c \in Conns, n \in NoteIds :
             (n \in conns'[c].rooms /\ n \notin conns[c].rooms)
             => /\ n \in DOMAIN notes
                /\ conns[c].user = conns'[c].user
                /\ \/ notes[n].ownerId = conns[c].user
                   \/ \E s \in DOMAIN shares : ActiveShareOf(s, n, conns[c].user)
       /\ \A n \in NoteIds, u \in Users :
             (u \in activeUsers'[n] /\ u \notin activeUsers[n])
             => /\ n \in DOMAIN notes
                /\ \/ notes[n].ownerId = u
                   \/ \E s \in DOMAIN shares : ActiveShareOf(s, n, u)
       /\ \A c \in Conns, n \in JoinIds :
             (/\ JoinNote(c, n)
              /\ ~(/\ n \in DOMAIN notes
                   /\ \/ notes[n].ownerId = conns[c].user
                      \/ \E s \in DOMAIN shares : ActiveShareOf(s, n, conns[c].user)))
             => JoinRefused(c) \in sent'
       /\ \A c \in Conns :
             JoinRefused(c) \in sent'
             => /\ sent' = {JoinRefused(c)}
                /\ conns' = conns
                /\ activeUsers' = activeUsers
                /\ conns[c] # NoConn]_vars

\* C25 witness: "B", whose share was revoked while their socket was in the note's
\* room, has just sent join-note again and was refused; the socket is still connected
\* and still in the room, next to the owner's
C25_Witness ==
    /\ sent = {JoinRefused("c2")}
    /\ conns["c2"] = [user |-> "B", rooms |-> {"n1"}]
    /\ conns["c1"] = [user |-> "A", rooms |-> {"n1"}]
    /\ activeUsers["n1"] = {"A", "B"}
    /\ \E s \in DOMAIN shares : shares[s].sharedWithId = "B" /\ shares[s].isRevoked

\* C26: a content-change or cursor-position message for a note from a socket that is
\* not in that note's room delivers no socket message at all (no content-update, no
\* cursor-update, no error) and changes no stored row and starts no request; a
\* cursor-position message changes no stored row and starts no request, whoever
\* sends it.
C26_OutsidersAreIgnored ==
    [][\A c \in Conns, n \in JoinIds :
          /\ (/\ n \notin conns[c].rooms
              /\ \/ CursorPosition(c, n)
                 \/ \E content \in {"X", "Y"}, title \in {"", "U"}, p \in Procs :
                       ContentChange(c, n, content, title, p))
             => /\ sent' = {}
                /\ UNCHANGED <<users, notes, revisions, shares, pc, loc>>
          /\ CursorPosition(c, n)
             => UNCHANGED <<users, notes, revisions, shares, pc, loc>>]_vars

\* C26 witness: "B"'s socket has left the room of the stored note while "A"'s socket
\* is in it, and the last step (a message such as B's content-change) delivered
\* nothing
C26_Witness ==
    /\ "n1" \in DOMAIN notes
    /\ conns["c2"] = [user |-> "B", rooms |-> {}]
    /\ conns["c1"] = [user |-> "A", rooms |-> {"n1"}]
    /\ activeUsers["n1"] = {"A"}
    /\ \E s \in DOMAIN shares : ActiveShareOf(s, "n1", "B")
    /\ pc["p2"] = "idle"
    /\ sent = {}

\* C27: a content-change for a note from a socket that is in the note's room delivers
\* a content-update carrying the note id, the content and the sender's user id to
\* every other socket of the room, and delivers no content-update to the sending
\* socket.
C27_ChangeGoesToTheOthers ==
    [][\A c \in Conns, n \in JoinIds, content \in {"X", "Y"}, title \in {"", "U"},
          p \in Procs :
          (n \in conns[c].rooms /\ ContentChange(c, n, content, title, p))
          => /\ \A d \in NoteRoom(n) \ {c} :
                   [NoMessage EXCEPT !.to = d, !.event = "content-update", !.nid = n,
                                     !.user = conns[c].user, !.content = content] \in sent'
             /\ \A m \in sent' : m.to = c => m.event # "content-update"]_vars

\* C27 witness: "B"'s socket got the content-update of a change "A" sent for the
\* note, and "A"'s socket, in the same room, got nothing
C27_Witness ==
    /\ "n1" \in conns["c1"].rooms /\ "n1" \in conns["c2"].rooms
    /\ conns["c1"].user = "A" /\ conns["c2"].user = "B"
    /\ [NoMessage EXCEPT !.to = "c2", !.event = "content-update", !.nid = "n1",
                         !.user = "A", !.content = "Y"] \in sent
    /\ \A m \in sent : m.to # "c1"

\* C28: in every reachable state the active-participant set of each note is the set
\* of the users of the sockets that are in the note's room.
C28_PresenceIsExact ==
    \A n \in NoteIds : activeUsers[n] = {conns[c].user : c \in NoteRoom(n)}

\* C29: the step that completes a successful updateNote request and changes the
\* stored note delivers a socket message to every socket that is in the note's room.
C29_UpdateIsFannedOut ==
    [][\A p \in Procs :
          (/\ pc[p] = "upd_note" /\ pc'[p] = "done" /\ loc'[p].result = "ok"
           /\ notes'[loc[p].nid] # notes[loc[p].nid])
          => \A c \in NoteRoom(loc[p].nid) : \E m \in sent' : m.to = c]_vars

\* C30: a deleteNote call by a user who is not the note's owner ends with an error and
\* leaves the notes, the revisions and the shares as they were; and from the step in
\* which a deleteNote call has ended with success until that request slot is reused,
\* whatever other calls do meanwhile, the note is not stored and no revision and no
\* share references it.
C30_DeleteCascades ==
    [][\A p \in Procs :
          /\ (/\ Starts(p, "deleteNote")
              /\ loc'[p].nid \in DOMAIN notes
              /\ notes[loc'[p].nid].ownerId # loc'[p].user)
             => /\ pc'[p] = "done" /\ loc'[p].result # "ok"
                /\ UNCHANGED <<notes, revisions, shares>>
          /\ (pc'[p] = "done" /\ loc'[p].op = "deleteNote" /\ loc'[p].result = "ok")
             => /\ loc'[p].nid \notin DOMAIN notes'
                /\ \A i \in DOMAIN revisions' : revisions'[i].noteId # loc'[p].nid
                /\ \A s \in DOMAIN shares' : shares'[s].noteId # loc'[p].nid]_vars

\* C31: a step in which a deleteNote call ends with an error after its owner check
\* changes no stored row (the statements after the failed one are not run), and a
\* step in which a deleteNote call ends with success leaves the note not stored and
\* no revision and no share referencing it.
C31_FailedCascadeAborts ==
    [][\A p \in Procs :
          (pc[p] \in {"del_revs", "del_shares", "del_note"} /\ pc'[p] = "done")
          => IF loc'[p].result = "ok"
             THEN /\ loc[p].nid \notin DOMAIN notes'
                  /\ \A i \in DOMAIN revisions' : revisions'[i].noteId # loc[p].nid
                  /\ \A s \in DOMAIN shares' : shares'[s].noteId # loc[p].nid
             ELSE /\ loc'[p].result = "Failed to delete note"
                  /\ UNCHANGED <<notes, revisions, shares>>]_vars

\* C31 witness: a deleteNote call of the owner has ended with "Failed to delete note"
\* at its last statement, after an overlapping update stored a revision behind the
\* cascade's back; the note and that revision are still stored
C31_Witness ==
    \E p \in Procs :
        /\ pc[p] = "done" /\ loc[p].op = "deleteNote"
        /\ loc[p].result = "Failed to delete note"
        /\ loc[p].nid \in DOMAIN notes
        /\ \E i \in DOMAIN revisions : revisions[i].noteId = loc[p].nid
        /\ \E i \in DOMAIN revisions : revisions[i] = NoRevision

\* C32: the list a searchNotes call returns, with no other request in flight, names
\* no note twice, and names only stored notes that are not archived and that the
\* caller owns or holds an accepted, unrevoked share of.
C32_SearchReturnsEachNoteOnce ==
    [][\A p \in Procs :
          (pc[p] \in {"src_shares", "src_shared"} /\ pc'[p] = "done")
          => LET list == loc'[p].list
                 u == loc[p].user
             IN /\ \A i, j \in DOMAIN list : i # j => list[i] # list[j]
                /\ \A i \in DOMAIN list :
                      /\ list[i] \in DOMAIN notes
                      /\ ~notes[list[i]].isArchived
                      /\ \/ notes[list[i]].ownerId = u
                         \/ \E s \in DOMAIN shares : ActiveShareOf(s, list[i], u)]_vars

\* C33: a get, update, delete, share, revoke, revisions or restore request that ended
\* because its caller has no access, may not edit, or is not the owner is answered
\* with status 404, the status of the same request for a note or share that does not
\* exist.
C33_ForbiddenLooksLikeNotFound ==
    \A p \in Procs :
        (/\ pc[p] = "done"
         /\ loc[p].op \in {"getNote", "updateNote", "deleteNote", "shareNote", "revokeShare",
                           "getNoteRevisions", "restoreRevision"}
         /\ loc[p].result \in {"Forbidden", "Only the owner can delete this note",
                               "Only the owner can share this note",
                               "Only the owner can revoke shares"})
        => /\ HttpStatus(loc[p].op, loc[p].result) = 404
           /\ HttpStatus(loc[p].op, loc[p].result)
                 = HttpStatus(loc[p].op, IF loc[p].op = "revokeShare" THEN "Share not found"
                                         ELSE "Note not found")

\* C34: the step in which an updateNote call stores its revision leaves no revision
\* of the note at the version the stored note has, and an updateNote call that
\* stored a revision ends with the note stored at the incremented version with the
\* content of the patch.
C34_UpdateIsAtomic ==
    [][\A p \in Procs :
          /\ (pc[p] = "upd_rev" /\ pc'[p] = "upd_note")
             => \A i \in DOMAIN revisions' :
                   revisions'[i].noteId = loc[p].nid
                   => revisions'[i].version # notes'[loc[p].nid].version
          /\ (/\ pc[p] = "upd_note" /\ pc'[p] = "done"
              /\ loc[p].rev # NoRevision)
             => /\ notes'[loc[p].nid].version = loc[p].readVersion + 1
                /\ notes'[loc[p].nid].content = loc[p].patch.content]_vars

\* the error event content-change sends to socket c when the save fails
SaveFailed(c) ==
    [NoMessage EXCEPT !.to = c, !.event = "error", !.action = "Failed to save note"]

\* C35: a content-change with a title from a socket in the note's room starts an
\* updateNote call for that note under the socket's user with the content and title
\* of the change; when that user is not the owner and holds no accepted, unrevoked
\* edit share, the call ends at once with an error, the socket gets the "Failed to
\* save note" error event and no stored row changes; when the user is the owner or
\* holds only edit shares, the call goes on to its saves and no error event is sent.
\* A content-change without a title starts no call and changes no stored row.
C35_ChangeWithTitleIsSaved ==
    [][\A c \in Conns, n \in NoteIds, content \in {"X", "Y"}, title \in {"", "U"},
          p \in Procs :
          (n \in conns[c].rooms /\ ContentChange(c, n, content, title, p))
          => LET u == conns[c].user
                 held == {s \in DOMAIN shares : ActiveShareOf(s, n, u)}
                 edits == {s \in held : shares[s].permission = "edit"}
             IN IF title = ""
                THEN UNCHANGED <<notes, revisions, shares, pc, loc>>
                ELSE /\ Starts(p, "updateNote")
                     /\ loc'[p].user = u /\ loc'[p].nid = n
                     /\ loc'[p].patch = [NoPatch EXCEPT !.hasContent = TRUE,
                                                        !.content = content,
                                                        !.hasTitle = TRUE, !.title = title]
                     /\ UNCHANGED <<notes, revisions, shares>>
                     /\ (notes[n].ownerId # u /\ edits = {})
                        => /\ pc'[p] = "done" /\ loc'[p].result # "ok"
                           /\ SaveFailed(c) \in sent'
                     /\ (notes[n].ownerId = u \/ (held # {} /\ edits = held))
                        => /\ pc'[p] \in {"upd_rev", "upd_note"}
                           /\ SaveFailed(c) \notin sent']_vars

\* C35 witness: "B", in the room with a read-only share, sent a change with a title;
\* the call ended with the permission error, B's socket got the error event, and the
\* note is stored as it was created
C35_Witness ==
    /\ conns["c2"] = [user |-> "B", rooms |-> {"n1"}]
    /\ SaveFailed("c2") \in sent
    /\ pc["p2"] = "done" /\ loc["p2"].op = "updateNote" /\ loc["p2"].user = "B"
    /\ loc["p2"].result = "Forbidden"
    /\ \E s \in DOMAIN shares : ActiveShareOf(s, "n1", "B") /\ shares[s].permission = "read"
    /\ notes["n1"].content = "X" /\ notes["n1"].title = "T" /\ notes["n1"].version = 1

\* C36: every content-update a step delivers carries the user id of a user who, when
\* the step is taken, owns the note or holds an accepted, unrevoked edit share of it.
C36_OnlyEditorsAreRelayed ==
    [][\A m \in sent' :
          m.event = "content-update"
          => /\ m.nid \in DOMAIN notes
             /\ \/ notes[m.nid].ownerId = m.user
                \/ \E s \in DOMAIN shares :
                      ActiveShareOf(s, m.nid, m.user) /\ shares[s].permission = "edit"]_vars

\* C37: in every reachable state, every socket in the room of a note belongs to a
\* user who owns the stored note or holds an accepted, unrevoked share of it.
C37_RoomMembersHaveAccess ==
    \A n \in NoteIds : \A c \in NoteRoom(n) :
        /\ n \in DOMAIN notes
        /\ \/ notes[n].ownerId = conns[c].user
           \/ \E s \in DOMAIN shares : ActiveShareOf(s, n, conns[c].user)

\* C38: for a user who is not the owner and holds accepted, unrevoked shares of a
\* note, the permission a getNote call resolves and the decision of an updateNote
\* call are what every one of those shares gives, whichever of them the store
\* returns first: getNote's permission is the permission of each of them, and
\* updateNote goes on exactly when each of them is an edit share.
C38_PermissionIgnoresRowOrder ==
    [][\A p \in Procs :
          LET n == loc'[p].nid
              u == loc'[p].user
              held == {s \in DOMAIN shares : ActiveShareOf(s, n, u)}
          IN /\ (/\ Starts(p, "getNote") /\ n \in DOMAIN notes
                 /\ notes[n].ownerId # u /\ held # {})
                => \A s \in held : loc'[p].permission = shares[s].permission
             /\ (/\ Starts(p, "updateNote") /\ n \in DOMAIN notes
                 /\ notes[n].ownerId # u /\ held # {})
                => \A s \in held : (pc'[p] # "done") <=> (shares[s].permission = "edit")]_vars

\* C39: whenever the browser of "B" is connected, has handled every socket message,
\* has no request on its way and no response outstanding, and no call is running on
\* the server, its sharedNotes are the notes the server lists as shared with "B".
C39_ClientConverges ==
    (/\ client.online
     /\ Handled
     /\ client.requests = 0 /\ client.responses = {}
     /\ \A p \in Procs : pc[p] = "idle")
    => client.sharedNotes = getSharedNotes("B")

====
